---- MODULE Spec2Model ----
(***************************************************************************)
(* Verification model of the ForziumAPI compute core.                      *)
(*                                                                         *)
(*   PoolSpec     memory/pool_allocator.rs   PoolAllocator shared by the   *)
(*                threads of Threads; one action per lock-delimited step   *)
(*                of allocate and deallocate.                              *)
(*   MetricsSpec  compute/rayon_metrics.rs   the process-wide RayonMetrics *)
(*                counters; one action per atomic operation of the task    *)
(*                guard, of reset_metrics and of snapshot_and_reset.       *)
(***************************************************************************)
EXTENDS Integers, Sequences, FiniteSets, TLC

\* ------------------------------------------------------------------ bounds
\* Largest block size a caller asks for.
MaxSize == 1
\* Largest capacity a pool is constructed with.
MaxCapacity == 2
\* Calls (allocate or deallocate) the threads make in all.
MaxOps == 4

\* track_task calls, and reset_metrics / snapshot_and_reset calls that pass
\* the active-worker test, in all.
MaxCalls == 3
\* Longest task duration, in nanoseconds.
MaxNanos == 1
\* rayon::current_num_threads() of the running process.
RayonThreads == 2

\* Client connections that may be open to the HTTP server at once.
MaxConns == 2
\* Largest value given to set_connection_limit.
MaxLimit == 2

\* Connection tasks handling a request at the same time.
MaxTasks == 2

\* Routes registered with add_route, in all.
MaxRoutes == 2

\* Longest tuple a handler returns.
MaxTupleLen == 4

\* Largest number of logical or physical cores of the machine.
MaxCores == 2
\* Calls into the thread pool manager, in all.
MaxTpCalls == 3

\* Most rows of a matrix given to a tensor operation.
MaxRows == 2
\* Longest row of such a matrix.
MaxCols == 2
\* Longest row of a matrix whose values are multiplied (cols_a, rows_b).
MaxInner == 4
\* Largest limit a caller stores into max_concurrent_ops.
MaxConcurrent == 2
\* OpGuard::try_new calls the threads make in all.
MaxTryNew == 4

\* The threads sharing one pool handle (Arc clones of the same state).
Threads == {"t1", "t2"}

\* The threads that create task guards and reset the metrics.
Workers == {"w1", "w2"}

Sizes == 0..MaxSize
\* Instant::elapsed() of a guard, through duration_to_nanos.
Durations == 0..MaxNanos
\* Stands for u64::MAX: above every duration and every sum of durations.
U64_MAX == MaxCalls * MaxNanos + 1
Capacities == 1..MaxCapacity

\* ------------------------------------------------------- program constants
\* allocate's const MAX_RETRIES
MaxRetriesOneMore == 3 + 1
MAX_RETRIES == 3

VARIABLES
    \* PoolAllocator fields
    capacity,      \* capacity: usize, fixed by new()
    used,          \* used: Arc<RwLock<usize>>
    peak_usage,    \* peak_usage: Arc<RwLock<usize>>
    blocks,        \* blocks: Arc<Mutex<VecDeque<Vec<u8>>>>, each block by its len()
    blocksLock,    \* holder of the blocks mutex, or NoThread
    stats,         \* stats: Arc<RwLock<PoolStats>>, without the wall-clock last_alloc_time
    \* per-thread position in allocate / deallocate
    pc,            \* where the thread is in its current call
    size,          \* allocate's argument
    retries,       \* allocate's local `retries`
    block,         \* the block being returned (allocate) or given back (deallocate)
    result,        \* what the last finished call returned
    held,          \* blocks each caller owns: held[t][len] = how many of that length
    opsLeft,       \* calls the threads may still start
    \* history
    maxUsed,       \* largest value `used` has held since new()
    \* RayonMetrics (the METRICS static)
    metrics,            \* the atomics, one field each
    observation_start,  \* observation_start: Mutex<Instant>, as a window number
    \* per-worker position in RayonTaskGuard::new, Drop and the reset calls
    mpc,           \* where the worker is in its current call
    current,       \* update_max / update_min's local `current`
    active,        \* RayonTaskGuard::new's local `active`
    nanos,         \* Drop's local `nanos`
    leaving,       \* how the scope holding the guard being dropped was left
    ridx,          \* next store of reset_unchecked
    guards,        \* live guards the worker owns (new returned, not yet dropped)
    mresult,       \* what the worker's last reset call returned
    callsLeft,     \* track_task calls and passing reset calls still to come
    \* history
    created,       \* track_task calls since the last completed reset (not counted while overlapped)
    rclean,        \* no guard was live or being created during the worker's reset call
    overlapped,    \* a reset_unchecked has stored while guards were live or created
    peak_held,     \* most guards counted in active_workers at once since the last completed reset (not kept while overlapped)
    dropped        \* dropped[d]: guards dropped with duration d since the last completed reset (not counted while overlapped)

pvars == <<capacity, used, peak_usage, blocks, blocksLock, stats,
           pc, size, retries, block, result, held, opsLeft, maxUsed>>

mvars == <<metrics, observation_start, mpc, current, active, nanos, ridx,
           guards, mresult, callsLeft, created, rclean, overlapped, peak_held,
           leaving, dropped>>

VARIABLES
    \* ForziumHttpServer fields (owned by the host thread)
    shutdown_tx,        \* shutdown_tx: Option<oneshot::Sender<()>>
    handle,             \* handle: Option<JoinHandle<()>>
    connection_limit,   \* connection_limit: usize
    spc,                \* where the host thread is: idle, or blocked in handle.join()
    sresult,            \* what the host thread's last serve / shutdown call returned
    \* the background thread started by serve()
    tpc,                \* where the thread is
    addr,               \* the address moved into the thread
    limit,              \* the connection_limit moved into the thread
    rx,                 \* the oneshot channel: open, sent, received, or receiver dropped
    shutdown_requested, \* the accept loop's local flag
    listening,          \* the TcpListener is bound and not yet dropped
    permits,            \* available permits of connection_limiter
    active_connections, \* active_connections: Arc<AtomicUsize>
    accepted,           \* the connection the loop holds between try_acquire_owned and spawn
    graceful,           \* graceful.shutdown() has been called
    conn,               \* each client connection: its stage and how its task ended
    req                 \* each connection task's request in flight and last response

svars == <<shutdown_tx, handle, connection_limit, spc, sresult, tpc, addr, limit,
           rx, shutdown_requested, listening, permits, active_connections,
           accepted, graceful, conn, req>>

VARIABLES
    \* the route table and the last request handled from it
    routes,        \* routes: Arc<Mutex<HashMap<Method, Vec<Route>>>>
    request,       \* the request last passed to handle_request: method and path
    response,      \* what handle_request returned for it
    invoked        \* the handlers call_handler was called with for that request

rvars == <<routes, request, response, invoked>>

VARIABLES
    \* one call of call_handler
    returned,      \* the object the Python handler returned
    built          \* what call_handler made of it

hvars == <<returned, built>>

VARIABLES
    \* the route table's mutex and the Python GIL among the threads using them
    routes_lock,   \* the thread holding the Mutex of `routes`, or free
    gil,           \* the thread holding the GIL, or free
    lpc,           \* where each thread is
    pushed         \* number of routes add_route has pushed for the method

lvars == <<routes_lock, gil, lpc, pushed>>

VARIABLES
    \* THREAD_POOL_MANAGER and the threads calling into it
    manager,           \* the Lazy static has been initialised
    total_cores,       \* num_cpus::get()
    physical_cores,    \* num_cpus::get_physical()
    config,            \* config: Arc<RwLock<ThreadPoolConfig>>
    default_pool,      \* default_pool: Arc<ThreadPool>
    specialized_pools, \* specialized_pools: Arc<RwLock<Vec<(String, Arc<ThreadPool>)>>>
    kpc,               \* where each calling thread is
    klocal,            \* its locals: the pool it is about to create
    handed,            \* the pools get_or_create_specialized_pool has returned, by name
    configured,        \* the configuration last stored
    made,              \* thread pools built so far
    tpCallsLeft        \* calls still to come

tvars == <<manager, total_cores, physical_cores, config, default_pool,
           specialized_pools, kpc, klocal, handed, configured, made, tpCallsLeft>>

VARIABLES
    \* one caller of the tensor operations and its arguments
    tensor_a,      \* first matrix (m, a, input), by the lengths of its rows
    tensor_b,      \* second matrix (b, kernel), by the lengths of its rows
    tensor_pc,     \* where the caller is
    tensor_op,     \* the operation called last
    tensor_size,   \* its size argument (max_pool2d)
    tensor_out,    \* what it returned
    compute_call   \* ComputeEngine::compute: its arguments and its registry lookup

xvars == <<tensor_a, tensor_b, tensor_pc, tensor_op, tensor_size, tensor_out, compute_call>>

VARIABLES
    \* the RESOURCE_LIMITS static and the threads that use OpGuard
    enabled,             \* RESOURCE_LIMITS.enabled
    max_concurrent_ops,  \* RESOURCE_LIMITS.max_concurrent_ops
    active_ops,          \* RESOURCE_LIMITS.active_ops; below 0: wrapped, 2^64 + active_ops
    opc,                 \* where each thread is in try_new or drop
    op_active,           \* try_new's local `active`
    op_max,              \* try_new's local `max`
    counted_guards,      \* guards each thread holds that try_new counted in active_ops
    uncounted_guards,    \* guards each thread holds that try_new handed out uncounted
    op_result,           \* what each thread's last try_new returned
    tryLeft,             \* try_new calls the threads may still make
    steady               \* no limit was changed while a guard was live or a call ran

ovars == <<enabled, max_concurrent_ops, active_ops, opc, op_active, op_max, counted_guards,
           uncounted_guards, op_result, tryLeft, steady>>

VARIABLES
    \* one caller that multiplies the same two matrices on every path
    val_a,         \* first matrix, by its values
    val_b,         \* second matrix, by its values
    val_pc,        \* the call made last
    val_platform,  \* target architecture and SIMD level of the build
    val_matmul,    \* what tensor_ops::matmul returned
    val_simd,      \* what tensor_ops::simd_matmul returned
    val_optimal    \* what simd_ops::optimal_matmul returned

dvars == <<val_a, val_b, val_pc, val_platform, val_matmul, val_simd, val_optimal>>

vars == <<pvars, mvars, svars, rvars, hvars, lvars, tvars, xvars, ovars, dvars>>

\* What an action of one subsystem leaves alone.
notPool == <<mvars, svars, rvars, hvars, lvars, tvars, xvars, ovars, dvars>>
notMetrics == <<pvars, svars, rvars, hvars, lvars, tvars, xvars, ovars, dvars>>
notServer == <<pvars, mvars, rvars, hvars, lvars, tvars, xvars, ovars, dvars>>
notRoutes == <<pvars, mvars, svars, hvars, lvars, tvars, xvars, ovars, dvars>>
notHandler == <<pvars, mvars, svars, rvars, lvars, tvars, xvars, ovars, dvars>>
notLocks == <<pvars, mvars, svars, rvars, hvars, tvars, xvars, ovars, dvars>>
notThreadPools == <<pvars, mvars, svars, rvars, hvars, lvars, xvars, ovars, dvars>>
notTensor == <<pvars, svars, rvars, hvars, lvars, tvars, ovars, dvars>>
notLimits == <<pvars, mvars, svars, rvars, hvars, lvars, tvars, xvars, dvars>>
notProducts == <<pvars, mvars, svars, rvars, hvars, lvars, tvars, xvars, ovars>>

NoThread == "none"

\* ----------------------------------------------------------- pure helpers
\* usize::saturating_sub
PlainSub(a, b) == a - b
SaturatingSub(a, b) == IF a >= b THEN a - b ELSE 0

\* allocate's capacity test: *used + size > self.capacity
OverCapacityOffByOne(u, s, cap) == u + s > cap + 1
OverCapacity(u, s, cap) == u + s > cap

\* allocate's peak update: if *used > *peak { *peak = *used }
NewPeakLastValue(u, p) == u
NewPeak(u, p) == IF u > p THEN u ELSE p

\* allocate's block: pop_front() resized up to size, or vec![0u8; size]
TakeBlock(q, s) ==
    IF q # <<>>
    THEN [len |-> IF Head(q) < s THEN s ELSE Head(q), rest |-> Tail(q)]
    ELSE [len |-> s, rest |-> q]

NoBlocks == [l \in Sizes |-> 0]

HeldBytes(t) ==
    LET Sum[n \in -1..MaxSize] == IF n < 0 THEN 0 ELSE n * held[t][n] + Sum[n - 1]
    IN Sum[MaxSize]

HeldCount(t) ==
    LET Sum[n \in -1..MaxSize] == IF n < 0 THEN 0 ELSE held[t][n] + Sum[n - 1]
    IN Sum[MaxSize]

\* ------------------------------------------------------------------- Init
\* PoolAllocator::new(capacity)
PoolInit ==
    /\ capacity \in Capacities
    /\ used = 0
    /\ peak_usage = 0
    /\ blocks = <<>>
    /\ blocksLock = NoThread
    /\ stats = [capacity |-> capacity, used |-> 0, alloc_count |-> 0,
                dealloc_count |-> 0, contention_count |-> 0, peak_usage |-> 0]
    /\ pc = [t \in Threads |-> "idle"]
    /\ size = [t \in Threads |-> 0]
    /\ retries = [t \in Threads |-> 0]
    /\ block = [t \in Threads |-> 0]
    /\ result = [t \in Threads |-> "-"]
    /\ held = [t \in Threads |-> NoBlocks]
    /\ opsLeft = MaxOps
    /\ maxUsed = 0

\* --------------------------------------------------------------- allocate
\* A caller enters allocate(s): retries = 0.
AllocCall(t, s) ==
    /\ pc[t] = "idle"
    /\ opsLeft > 0
    /\ opsLeft' = opsLeft - 1
    /\ pc' = [pc EXCEPT ![t] = "a_check"]
    /\ size' = [size EXCEPT ![t] = s]
    /\ retries' = [retries EXCEPT ![t] = 0]
    /\ result' = [result EXCEPT ![t] = "-"]
    /\ UNCHANGED notPool
    /\ UNCHANGED <<capacity, used, peak_usage, blocks, blocksLock, stats,
                   block, held, maxUsed>>

\* Top of the retry loop with retries < MAX_RETRIES: the capacity test under
\* used.read(); over capacity returns None at once.
AllocCheck(t) ==
    /\ pc[t] = "a_check"
    /\ retries[t] < MAX_RETRIES
    /\ IF OverCapacity(used, size[t], capacity)
       THEN /\ pc' = [pc EXCEPT ![t] = "idle"]
            /\ result' = [result EXCEPT ![t] = "None"]
            /\ size' = [size EXCEPT ![t] = 0]
            /\ retries' = [retries EXCEPT ![t] = 0]
       ELSE /\ pc' = [pc EXCEPT ![t] = "a_trylock"]
            /\ UNCHANGED <<result, size, retries>>
    /\ UNCHANGED notPool
    /\ UNCHANGED <<capacity, used, peak_usage, blocks, blocksLock, stats,
                   block, held, opsLeft, maxUsed>>

\* self.blocks.try_lock(): taken, or retries += 1 and sleep before the next
\* iteration.
AllocTryLock(t) ==
    /\ pc[t] = "a_trylock"
    /\ IF blocksLock = NoThread
       THEN /\ blocksLock' = t
            /\ pc' = [pc EXCEPT ![t] = "a_locked"]
            /\ UNCHANGED retries
       ELSE /\ retries' = [retries EXCEPT ![t] = @ + 1]
            /\ pc' = [pc EXCEPT ![t] = "a_check"]
            /\ UNCHANGED blocksLock
    /\ UNCHANGED notPool
    /\ UNCHANGED <<capacity, used, peak_usage, blocks, stats,
                   size, block, result, held, opsLeft, maxUsed>>

\* The critical section: used.write() is held from `*used += size` to the
\* return, so the updates of used, peak_usage, the queue and stats are one step
\* for every other allocate and deallocate.
AllocLocked(t) ==
    /\ pc[t] = "a_locked"
    /\ LET u == used + size[t]
           p == NewPeak(u, peak_usage)
           b == TakeBlock(blocks, size[t])
       IN /\ used' = u
          /\ peak_usage' = p
          /\ blocks' = b.rest
          /\ block' = [block EXCEPT ![t] = b.len]
          /\ stats' = [stats EXCEPT !.used = u,
                                    !.alloc_count = @ + 1,
                                    !.contention_count = @ + retries[t],
                                    !.peak_usage = p]
          /\ maxUsed' = IF u > maxUsed THEN u ELSE maxUsed
    /\ pc' = [pc EXCEPT ![t] = "a_unlock"]
    /\ UNCHANGED notPool
    /\ UNCHANGED <<capacity, blocksLock, size, retries, result, held, opsLeft>>

\* return Some(block): the guards drop in reverse order of declaration, the
\* blocks mutex last, after the write locks on stats, peak_usage and used.
AllocReturn(t) ==
    /\ pc[t] = "a_unlock"
    /\ blocksLock' = NoThread
    /\ held' = [held EXCEPT ![t][block[t]] = @ + 1]
    /\ result' = [result EXCEPT ![t] = "Some"]
    /\ pc' = [pc EXCEPT ![t] = "idle"]
    /\ size' = [size EXCEPT ![t] = 0]
    /\ retries' = [retries EXCEPT ![t] = 0]
    /\ block' = [block EXCEPT ![t] = 0]
    /\ UNCHANGED notPool
    /\ UNCHANGED <<capacity, used, peak_usage, blocks, stats, opsLeft, maxUsed>>

\* The loop ends with retries = MAX_RETRIES: the failed attempts are added to
\* the contention count and the call returns None.
AllocGiveUp(t) ==
    /\ pc[t] = "a_check"
    /\ retries[t] >= MAX_RETRIES
    /\ stats' = [stats EXCEPT !.contention_count = @ + retries[t]]
    /\ result' = [result EXCEPT ![t] = "None"]
    /\ pc' = [pc EXCEPT ![t] = "idle"]
    /\ size' = [size EXCEPT ![t] = 0]
    /\ retries' = [retries EXCEPT ![t] = 0]
    /\ UNCHANGED notPool
    /\ UNCHANGED <<capacity, used, peak_usage, blocks, blocksLock,
                   block, held, opsLeft, maxUsed>>

\* ------------------------------------------------------------- deallocate
\* A caller passes one of the blocks it obtained from allocate to
\* deallocate(block).
DeallocCall(t, len) ==
    /\ pc[t] = "idle"
    /\ opsLeft > 0
    /\ held[t][len] > 0
    /\ opsLeft' = opsLeft - 1
    /\ held' = [held EXCEPT ![t][len] = @ - 1]
    /\ block' = [block EXCEPT ![t] = len]
    /\ result' = [result EXCEPT ![t] = "-"]
    /\ pc' = [pc EXCEPT ![t] = "d_sub"]
    /\ UNCHANGED notPool
    /\ UNCHANGED <<capacity, used, peak_usage, blocks, blocksLock, stats,
                   size, retries, maxUsed>>

\* *used = used.saturating_sub(len) under used.write()
DeallocSub(t) ==
    /\ pc[t] = "d_sub"
    /\ used' = SaturatingSub(used, block[t])
    /\ pc' = [pc EXCEPT ![t] = "d_trylock"]
    /\ UNCHANGED notPool
    /\ UNCHANGED <<capacity, peak_usage, blocks, blocksLock, stats,
                   size, retries, block, result, held, opsLeft, maxUsed>>

\* self.blocks.try_lock(): taken, or the block is dropped and the call returns.
DeallocTryLock(t) ==
    /\ pc[t] = "d_trylock"
    /\ IF blocksLock = NoThread
       THEN /\ blocksLock' = t
            /\ pc' = [pc EXCEPT ![t] = "d_locked"]
            /\ UNCHANGED <<result, block>>
       ELSE /\ pc' = [pc EXCEPT ![t] = "idle"]
            /\ result' = [result EXCEPT ![t] = "Dropped"]
            /\ block' = [block EXCEPT ![t] = 0]
            /\ UNCHANGED blocksLock
    /\ UNCHANGED notPool
    /\ UNCHANGED <<capacity, used, peak_usage, blocks, stats,
                   size, retries, held, opsLeft, maxUsed>>

\* blocks.push_back(block); stats.used = *self.used.read(); dealloc_count += 1
DeallocLocked(t) ==
    /\ pc[t] = "d_locked"
    /\ blocks' = Append(blocks, block[t])
    /\ stats' = [stats EXCEPT !.used = used, !.dealloc_count = @ + 1]
    /\ pc' = [pc EXCEPT ![t] = "d_unlock"]
    /\ UNCHANGED notPool
    /\ UNCHANGED <<capacity, used, peak_usage, blocksLock,
                   size, retries, block, result, held, opsLeft, maxUsed>>

\* End of the if-let: the stats guard drops, then the blocks mutex.
DeallocReturn(t) ==
    /\ pc[t] = "d_unlock"
    /\ blocksLock' = NoThread
    /\ result' = [result EXCEPT ![t] = "Queued"]
    /\ pc' = [pc EXCEPT ![t] = "idle"]
    /\ block' = [block EXCEPT ![t] = 0]
    /\ UNCHANGED notPool
    /\ UNCHANGED <<capacity, used, peak_usage, blocks, stats,
                   size, retries, held, opsLeft, maxUsed>>

\* available(): self.capacity - *self.used.read()
available == capacity - used

PoolNext ==
    \/ \E t \in Threads, s \in Sizes : AllocCall(t, s)
    \/ \E t \in Threads : AllocCheck(t)
    \/ \E t \in Threads : AllocTryLock(t)
    \/ \E t \in Threads : AllocLocked(t)
    \/ \E t \in Threads : AllocReturn(t)
    \/ \E t \in Threads : AllocGiveUp(t)
    \/ \E t \in Threads, len \in Sizes : DeallocCall(t, len)
    \/ \E t \in Threads : DeallocSub(t)
    \/ \E t \in Threads : DeallocTryLock(t)
    \/ \E t \in Threads : DeallocLocked(t)
    \/ \E t \in Threads : DeallocReturn(t)


\* ======================================================== rayon metrics
\* impl Default for RayonMetrics
InitialMetrics ==
    [active_workers |-> 0, max_active_workers |-> 0, max_threads_observed |-> 0,
     tasks_started |-> 0, tasks_completed |-> 0, busy_time_nanos |-> 0,
     max_task_time_nanos |-> 0, min_task_time_nanos |-> U64_MAX]

\* What a reset call returned: nothing yet, Ok, or
\* Err(RayonMetricsError::ActiveWorkers(n)).
NoResult == [tag |-> "-", n |-> 0]
Ok == [tag |-> "Ok", n |-> 0]
ActiveWorkers(k) == [tag |-> "ActiveWorkers", n |-> k]

\* The ways the scope that owns a guard is left: by return (at the end of the
\* closure or early), or by unwinding from a panic. NotLeaving: no drop in
\* progress.
Exits == {"return", "unwind"}
NotLeaving == "-"

\* No guard dropped yet.
NoneDropped == [d \in Durations |-> 0]

MetricsInit ==
    /\ metrics = InitialMetrics
    /\ observation_start = 0
    /\ mpc = [t \in Workers |-> "idle"]
    /\ current = [t \in Workers |-> 0]
    /\ active = [t \in Workers |-> 0]
    /\ nanos = [t \in Workers |-> 0]
    /\ ridx = [t \in Workers |-> 0]
    /\ guards = [t \in Workers |-> 0]
    /\ mresult = [t \in Workers |-> NoResult]
    /\ callsLeft = MaxCalls
    /\ created = 0
    /\ peak_held = 0
    /\ rclean = [t \in Workers |-> FALSE]
    /\ overlapped = FALSE
    /\ leaving = [t \in Workers |-> NotLeaving]
    /\ dropped = NoneDropped

\* Guards whose construction has returned and whose drop has not begun.
LiveGuards ==
    Cardinality({g \in Workers \X (1..MaxCalls) : g[2] <= guards[g[1]]})

\* Workers that have taken their place in active_workers and not yet given it
\* up: past the fetch_add of new, owning a live guard, or in drop before the
\* fetch_sub.
HoldingActive ==
    LiveGuards
    + Cardinality({t \in Workers : mpc[t] \in {"n_maxact", "n_maxact_cas", "n_started"}})
    + Cardinality({t \in Workers : leaving[t] # NotLeaving})

\* A worker is inside RayonTaskGuard::new or Drop.
InGuardCall(t) ==
    mpc[t] \in {"n_threads_cas", "n_active", "n_maxact", "n_maxact_cas", "n_started",
                "d_max", "d_max_cas", "d_min", "d_min_cas", "d_completed", "d_active"}

\* A worker has passed the active-worker test of a reset call.
PastCheck(t) == mpc[t] \in {"sr_snapshot", "r_store"}

GuardActivity == LiveGuards > 0 \/ \E u \in Workers : InGuardCall(u)

\* update_max_*: the loop continues while value > current
MaxLoopStale(value, cur) == value >= cur
MaxLoop(value, cur) == value > cur

\* update_min_u64: the loop continues while value < current
MinLoop(value, cur) == value < cur

\* target.compare_exchange(current, value, ..) succeeds when the target still
\* holds the value loaded before.
CompareExchangeBlind(target, cur) == TRUE
CompareExchange(target, cur) == target = cur

\* reset_metrics / snapshot_and_reset: if active != 0 { return Err(..) }
RefusedAboveOne(a) == a > 1
Refused(a) == a # 0

\* AtomicU64::fetch_add(1) on tasks_completed in Drop
CompletedLost(c) == IF c >= 1 THEN c ELSE c + 1
CompletedAfterDrop(c) == c + 1

\* AtomicUsize::fetch_sub(1) on active_workers in Drop
ActiveKept(a) == a
ActiveAfterDrop(a) == a - 1

\* The n-th store of reset_unchecked, in program order.
ResetField(n) ==
    CASE n = 1 -> "max_active_workers"
      [] n = 2 -> "max_threads_observed"
      [] n = 3 -> "tasks_started"
      [] n = 4 -> "tasks_completed"
      [] n = 5 -> "busy_time_nanos"
      [] n = 6 -> "max_task_time_nanos"
      [] OTHER -> "min_task_time_nanos"

\* Stores of reset_unchecked before the observation window is restarted.
ResetStores == 7

\* ------------------------------------------------- RayonTaskGuard::new
\* track_task(): total_threads = rayon::current_num_threads(); when it is
\* positive, update_max_usize(max_threads_observed, ..) loads the target.
TrackTask(t) ==
    /\ mpc[t] = "idle"
    /\ callsLeft > 0
    /\ callsLeft' = callsLeft - 1
    /\ created' = IF overlapped THEN created ELSE created + 1
    /\ UNCHANGED peak_held
    /\ rclean' = [u \in Workers |-> IF PastCheck(u) THEN FALSE ELSE rclean[u]]
    /\ IF RayonThreads > 0 /\ MaxLoop(RayonThreads, metrics.max_threads_observed)
       THEN /\ current' = [current EXCEPT ![t] = metrics.max_threads_observed]
            /\ mpc' = [mpc EXCEPT ![t] = "n_threads_cas"]
       ELSE /\ mpc' = [mpc EXCEPT ![t] = "n_active"]
            /\ UNCHANGED current
    /\ mresult' = [mresult EXCEPT ![t] = NoResult]
    /\ UNCHANGED <<metrics, observation_start, active, nanos, ridx, guards,
                   overlapped>>
    /\ UNCHANGED <<leaving, dropped>>
    /\ UNCHANGED notMetrics

\* compare_exchange on max_threads_observed: stored, or current = previous and
\* the loop test again.
NewCasThreads(t) ==
    /\ mpc[t] = "n_threads_cas"
    /\ IF CompareExchange(metrics.max_threads_observed, current[t])
       THEN /\ metrics' = [metrics EXCEPT !.max_threads_observed = RayonThreads]
            /\ current' = [current EXCEPT ![t] = 0]
            /\ mpc' = [mpc EXCEPT ![t] = "n_active"]
       ELSE /\ UNCHANGED metrics
            /\ IF MaxLoop(RayonThreads, metrics.max_threads_observed)
               THEN /\ current' = [current EXCEPT ![t] = metrics.max_threads_observed]
                    /\ UNCHANGED mpc
               ELSE /\ current' = [current EXCEPT ![t] = 0]
                    /\ mpc' = [mpc EXCEPT ![t] = "n_active"]
    /\ UNCHANGED <<observation_start, active, nanos, ridx, guards, mresult,
                   callsLeft, created, rclean, overlapped, peak_held>>
    /\ UNCHANGED <<leaving, dropped>>
    /\ UNCHANGED notMetrics

\* active = active_workers.fetch_add(1) + 1
NewFetchAddActive(t) ==
    /\ mpc[t] = "n_active"
    /\ active' = [active EXCEPT ![t] = metrics.active_workers + 1]
    /\ metrics' = [metrics EXCEPT !.active_workers = @ + 1]
    /\ mpc' = [mpc EXCEPT ![t] = "n_maxact"]
    /\ peak_held' = IF ~overlapped /\ HoldingActive + 1 > peak_held
                    THEN HoldingActive + 1 ELSE peak_held
    /\ UNCHANGED <<observation_start, current, nanos, ridx, guards, mresult,
                   callsLeft, created, rclean, overlapped>>
    /\ UNCHANGED <<leaving, dropped>>
    /\ UNCHANGED notMetrics

\* update_max_usize(max_active_workers, active): the load and the loop test
NewLoadMaxActive(t) ==
    /\ mpc[t] = "n_maxact"
    /\ IF MaxLoop(active[t], metrics.max_active_workers)
       THEN /\ current' = [current EXCEPT ![t] = metrics.max_active_workers]
            /\ mpc' = [mpc EXCEPT ![t] = "n_maxact_cas"]
            /\ UNCHANGED active
       ELSE /\ mpc' = [mpc EXCEPT ![t] = "n_started"]
            /\ active' = [active EXCEPT ![t] = 0]
            /\ UNCHANGED current
    /\ UNCHANGED <<metrics, observation_start, nanos, ridx, guards, mresult,
                   callsLeft, created, rclean, overlapped, peak_held>>
    /\ UNCHANGED <<leaving, dropped>>
    /\ UNCHANGED notMetrics

\* compare_exchange on max_active_workers
NewCasMaxActive(t) ==
    /\ mpc[t] = "n_maxact_cas"
    /\ IF CompareExchange(metrics.max_active_workers, current[t])
       THEN /\ metrics' = [metrics EXCEPT !.max_active_workers = active[t]]
            /\ current' = [current EXCEPT ![t] = 0]
            /\ active' = [active EXCEPT ![t] = 0]
            /\ mpc' = [mpc EXCEPT ![t] = "n_started"]
       ELSE /\ UNCHANGED metrics
            /\ IF MaxLoop(active[t], metrics.max_active_workers)
               THEN /\ current' = [current EXCEPT ![t] = metrics.max_active_workers]
                    /\ UNCHANGED <<mpc, active>>
               ELSE /\ current' = [current EXCEPT ![t] = 0]
                    /\ active' = [active EXCEPT ![t] = 0]
                    /\ mpc' = [mpc EXCEPT ![t] = "n_started"]
    /\ UNCHANGED <<observation_start, nanos, ridx, guards, mresult,
                   callsLeft, created, rclean, overlapped, peak_held>>
    /\ UNCHANGED <<leaving, dropped>>
    /\ UNCHANGED notMetrics

\* tasks_started.fetch_add(1); the guard is returned to the caller.
NewStarted(t) ==
    /\ mpc[t] = "n_started"
    /\ metrics' = [metrics EXCEPT !.tasks_started = @ + 1]
    /\ guards' = [guards EXCEPT ![t] = @ + 1]
    /\ mpc' = [mpc EXCEPT ![t] = "idle"]
    /\ UNCHANGED <<observation_start, current, active, nanos, ridx, mresult,
                   callsLeft, created, rclean, overlapped, peak_held>>
    /\ UNCHANGED <<leaving, dropped>>
    /\ UNCHANGED notMetrics

\* ------------------------------------------------ Drop for RayonTaskGuard
\* The scope holding a guard is left in the way e (the `let _guard` binding
\* goes out of scope) and drop() runs:
\* nanos = duration_to_nanos(start.elapsed());
\* busy_time_nanos.fetch_add(nanos)
DropGuard(t, d, e) ==
    /\ mpc[t] = "idle"
    /\ guards[t] > 0
    /\ guards' = [guards EXCEPT ![t] = @ - 1]
    /\ nanos' = [nanos EXCEPT ![t] = d]
    /\ leaving' = [leaving EXCEPT ![t] = e]
    /\ dropped' = IF overlapped THEN dropped ELSE [dropped EXCEPT ![d] = @ + 1]
    /\ metrics' = [metrics EXCEPT !.busy_time_nanos = @ + d]
    /\ mpc' = [mpc EXCEPT ![t] = "d_max"]
    /\ mresult' = [mresult EXCEPT ![t] = NoResult]
    /\ UNCHANGED <<observation_start, current, active, ridx,
                   callsLeft, created, rclean, overlapped, peak_held>>
    /\ UNCHANGED notMetrics

\* update_max_u64(max_task_time_nanos, nanos): the load and the loop test
DropLoadMax(t) ==
    /\ mpc[t] = "d_max"
    /\ IF MaxLoop(nanos[t], metrics.max_task_time_nanos)
       THEN /\ current' = [current EXCEPT ![t] = metrics.max_task_time_nanos]
            /\ mpc' = [mpc EXCEPT ![t] = "d_max_cas"]
       ELSE /\ mpc' = [mpc EXCEPT ![t] = "d_min"]
            /\ UNCHANGED current
    /\ UNCHANGED <<metrics, observation_start, active, nanos, ridx, guards, mresult,
                   callsLeft, created, rclean, overlapped, peak_held>>
    /\ UNCHANGED <<leaving, dropped>>
    /\ UNCHANGED notMetrics

\* compare_exchange on max_task_time_nanos
DropCasMax(t) ==
    /\ mpc[t] = "d_max_cas"
    /\ IF CompareExchange(metrics.max_task_time_nanos, current[t])
       THEN /\ metrics' = [metrics EXCEPT !.max_task_time_nanos = nanos[t]]
            /\ current' = [current EXCEPT ![t] = 0]
            /\ mpc' = [mpc EXCEPT ![t] = "d_min"]
       ELSE /\ UNCHANGED metrics
            /\ IF MaxLoop(nanos[t], metrics.max_task_time_nanos)
               THEN /\ current' = [current EXCEPT ![t] = metrics.max_task_time_nanos]
                    /\ UNCHANGED mpc
               ELSE /\ current' = [current EXCEPT ![t] = 0]
                    /\ mpc' = [mpc EXCEPT ![t] = "d_min"]
    /\ UNCHANGED <<observation_start, active, nanos, ridx, guards, mresult,
                   callsLeft, created, rclean, overlapped, peak_held>>
    /\ UNCHANGED <<leaving, dropped>>
    /\ UNCHANGED notMetrics

\* update_min_u64(min_task_time_nanos, nanos): the load and the loop test
DropLoadMin(t) ==
    /\ mpc[t] = "d_min"
    /\ IF MinLoop(nanos[t], metrics.min_task_time_nanos)
       THEN /\ current' = [current EXCEPT ![t] = metrics.min_task_time_nanos]
            /\ mpc' = [mpc EXCEPT ![t] = "d_min_cas"]
       ELSE /\ mpc' = [mpc EXCEPT ![t] = "d_completed"]
            /\ UNCHANGED current
    /\ UNCHANGED <<metrics, observation_start, active, nanos, ridx, guards, mresult,
                   callsLeft, created, rclean, overlapped, peak_held>>
    /\ UNCHANGED <<leaving, dropped>>
    /\ UNCHANGED notMetrics

\* compare_exchange on min_task_time_nanos
DropCasMin(t) ==
    /\ mpc[t] = "d_min_cas"
    /\ IF CompareExchange(metrics.min_task_time_nanos, current[t])
       THEN /\ metrics' = [metrics EXCEPT !.min_task_time_nanos = nanos[t]]
            /\ current' = [current EXCEPT ![t] = 0]
            /\ mpc' = [mpc EXCEPT ![t] = "d_completed"]
       ELSE /\ UNCHANGED metrics
            /\ IF MinLoop(nanos[t], metrics.min_task_time_nanos)
               THEN /\ current' = [current EXCEPT ![t] = metrics.min_task_time_nanos]
                    /\ UNCHANGED mpc
               ELSE /\ current' = [current EXCEPT ![t] = 0]
                    /\ mpc' = [mpc EXCEPT ![t] = "d_completed"]
    /\ UNCHANGED <<observation_start, active, nanos, ridx, guards, mresult,
                   callsLeft, created, rclean, overlapped, peak_held>>
    /\ UNCHANGED <<leaving, dropped>>
    /\ UNCHANGED notMetrics

\* tasks_completed.fetch_add(1)
DropCompleted(t) ==
    /\ mpc[t] = "d_completed"
    /\ metrics' = [metrics EXCEPT !.tasks_completed = CompletedAfterDrop(@)]
    /\ nanos' = [nanos EXCEPT ![t] = 0]
    /\ mpc' = [mpc EXCEPT ![t] = "d_active"]
    /\ UNCHANGED <<observation_start, current, active, ridx, guards, mresult,
                   callsLeft, created, rclean, overlapped, peak_held>>
    /\ UNCHANGED <<leaving, dropped>>
    /\ UNCHANGED notMetrics

\* active_workers.fetch_sub(1)
DropActive(t) ==
    /\ mpc[t] = "d_active"
    /\ metrics' = [metrics EXCEPT !.active_workers = ActiveAfterDrop(@)]
    /\ mpc' = [mpc EXCEPT ![t] = "idle"]
    /\ leaving' = [leaving EXCEPT ![t] = NotLeaving]
    /\ UNCHANGED <<observation_start, current, active, nanos, ridx, guards, mresult,
                   callsLeft, created, rclean, overlapped, peak_held, dropped>>
    /\ UNCHANGED notMetrics

\* ------------------------------------- reset_metrics, snapshot_and_reset
\* The active-worker test both calls begin with:
\* active = active_workers.load(SeqCst); a non-zero count is returned as
\* Err(ActiveWorkers(active)), otherwise the call goes on at `next`.
ResetCheck(t, next) ==
    /\ mpc[t] = "idle"
    /\ IF Refused(metrics.active_workers)
       THEN /\ mresult' = [mresult EXCEPT ![t] =
                              ActiveWorkers(metrics.active_workers)]
            /\ UNCHANGED <<mpc, ridx, rclean, callsLeft>>
       ELSE /\ callsLeft > 0
            /\ callsLeft' = callsLeft - 1
            /\ mpc' = [mpc EXCEPT ![t] = next]
            /\ ridx' = [ridx EXCEPT ![t] = 1]
            /\ rclean' = [rclean EXCEPT ![t] = ~GuardActivity]
            /\ mresult' = [mresult EXCEPT ![t] = NoResult]
    /\ UNCHANGED <<metrics, observation_start, current, active, nanos, guards,
                   created, overlapped, peak_held>>
    /\ UNCHANGED <<leaving, dropped>>
    /\ UNCHANGED notMetrics

\* reset_metrics()
ResetMetrics(t) == ResetCheck(t, "r_store")

\* snapshot_and_reset()
SnapshotAndReset(t) == ResetCheck(t, "sr_snapshot")

\* RayonPoolSnapshot::from_metrics: loads only; the snapshot is the call's
\* return value.
SnapshotRead(t) ==
    /\ mpc[t] = "sr_snapshot"
    /\ mpc' = [mpc EXCEPT ![t] = "r_store"]
    /\ UNCHANGED <<metrics, observation_start, current, active, nanos, ridx, guards,
                   mresult, callsLeft, created, rclean, overlapped, peak_held>>
    /\ UNCHANGED <<leaving, dropped>>
    /\ UNCHANGED notMetrics

\* One of the seven stores of reset_unchecked.
ResetStore(t) ==
    /\ mpc[t] = "r_store"
    /\ ridx[t] <= ResetStores
    /\ metrics' = [metrics EXCEPT ![ResetField(ridx[t])] =
                                      InitialMetrics[ResetField(ridx[t])]]
    /\ ridx' = [ridx EXCEPT ![t] = @ + 1]
    /\ IF rclean[t]
       THEN UNCHANGED <<overlapped, created, dropped, peak_held>>
       ELSE overlapped' = TRUE /\ created' = 0 /\ dropped' = NoneDropped /\ peak_held' = 0
    /\ UNCHANGED <<observation_start, mpc, current, active, nanos, guards, mresult,
                   callsLeft, rclean>>
    /\ UNCHANGED leaving
    /\ UNCHANGED notMetrics

\* *start = Instant::now() under the observation_start mutex; the call
\* returns Ok.
ResetRestartWindow(t) ==
    /\ mpc[t] = "r_store"
    /\ ridx[t] > ResetStores
    /\ observation_start' = observation_start + 1
    /\ mresult' = [mresult EXCEPT ![t] = Ok]
    /\ ridx' = [ridx EXCEPT ![t] = 0]
    /\ mpc' = [mpc EXCEPT ![t] = "idle"]
    /\ IF rclean[t]
       THEN created' = 0 /\ overlapped' = FALSE /\ dropped' = NoneDropped /\ peak_held' = 0
       ELSE overlapped' = TRUE /\ created' = 0 /\ dropped' = NoneDropped /\ peak_held' = 0
    /\ rclean' = [rclean EXCEPT ![t] = FALSE]
    /\ UNCHANGED <<metrics, current, active, nanos, guards, callsLeft>>
    /\ UNCHANGED leaving
    /\ UNCHANGED notMetrics

MetricsNext ==
    \/ \E t \in Workers : TrackTask(t)
    \/ \E t \in Workers : NewCasThreads(t)
    \/ \E t \in Workers : NewFetchAddActive(t)
    \/ \E t \in Workers : NewLoadMaxActive(t)
    \/ \E t \in Workers : NewCasMaxActive(t)
    \/ \E t \in Workers : NewStarted(t)
    \/ \E t \in Workers, d \in Durations, e \in Exits : DropGuard(t, d, e)
    \/ \E t \in Workers : DropLoadMax(t)
    \/ \E t \in Workers : DropCasMax(t)
    \/ \E t \in Workers : DropLoadMin(t)
    \/ \E t \in Workers : DropCasMin(t)
    \/ \E t \in Workers : DropCompleted(t)
    \/ \E t \in Workers : DropActive(t)
    \/ \E t \in Workers : ResetMetrics(t)
    \/ \E t \in Workers : SnapshotAndReset(t)
    \/ \E t \in Workers : SnapshotRead(t)
    \/ \E t \in Workers : ResetStore(t)
    \/ \E t \in Workers : ResetRestartWindow(t)


\* ====================================================== handler calls
NoRequest == [method |-> "-", path |-> <<>>]
NoResponse == [status |-> 0, body |-> "-", detail |-> <<>>, by |-> 0]

\* json_response(status, {"detail": ..})
json_response(status, body, detail) ==
    [status |-> status, body |-> body, detail |-> detail, by |-> 0]

\* The fallback's Response: status 200, body {"status":"ok"}
StatusOk == [status |-> 200, body |-> "{\"status\":\"ok\"}", detail |-> <<>>, by |-> 0]

\* Python objects a handler returns or puts in the tuple it returns.
PyInt(n) == [ty |-> "int", n |-> n]
PyStr == [ty |-> "str", n |-> 0]
PyListStr == [ty |-> "list[str]", n |-> 0]
PyBytes == [ty |-> "bytes", n |-> 0]
PyDict == [ty |-> "dict", n |-> 0]
PyNone == [ty |-> "None", n |-> 0]

PyTupleOf(items) == [tuple |-> TRUE, items |-> items]
NotATuple(v) == [tuple |-> FALSE, items |-> <<v>>]

\* (200, "..", {})
OkTuple == PyTupleOf(<<PyInt(200), PyStr, PyDict>>)
\* (99, "..", {})
Status99Tuple == PyTupleOf(<<PyInt(99), PyStr, PyDict>>)

U16_MAX == 65535

\* extract_response: Err unless the object is a tuple of 3 whose first item
\* extracts as u16, whose second is str, list[str] or bytes and whose third
\* extracts as a map of text to text.
ExtractErr == [ok |-> FALSE, status |-> 0]
extract_response(obj) ==
    IF ~obj.tuple THEN ExtractErr
    ELSE IF Len(obj.items) # 3 THEN ExtractErr
    ELSE IF ~(obj.items[1].ty = "int" /\ obj.items[1].n \in 0..U16_MAX)
    THEN ExtractErr
    ELSE IF obj.items[2].ty \notin {"str", "list[str]", "bytes"} THEN ExtractErr
    ELSE IF obj.items[3].ty # "dict" THEN ExtractErr
    ELSE [ok |-> TRUE, status |-> obj.items[1].n]

\* Response::builder().status(status): the builder holds an error unless the
\* status is one http::StatusCode accepts (100..=999).
AnyU16(status) == TRUE
StatusCodeOk(status) == status \in 100..999

\* builder.body(..).unwrap() on a builder that holds an error: the panic
\* leaves call_handler, no response is returned.
Unwinding == [status |-> 0, body |-> "panic", detail |-> <<>>, by |-> 0]

\* call_handler's `Ok(Ok(obj))` arm for handler h: 500 when extract_response
\* fails, else the response built from the tuple.
HandlerResponse(h, obj) ==
    LET r == extract_response(obj)
    IN  IF ~r.ok THEN json_response(500, "Internal Server Error", <<>>)
        ELSE IF ~StatusCodeOk(r.status) THEN Unwinding
        ELSE [status |-> r.status, body |-> "handler", detail |-> <<>>, by |-> h]

\* catch_unwind around the Python call: a panic in it is caught
NotCaught(outcome) == outcome # "panic"
Caught(outcome) == TRUE

\* call_handler with handler h: the response built from what the handler
\* returned ("tuple": (200, "..", {}); "status99": (99, "..", {})), or 500 for
\* a raised error and for a panic caught by catch_unwind.
call_handler(h, outcome) ==
    IF outcome = "tuple" THEN HandlerResponse(h, OkTuple)
    ELSE IF outcome = "status99" THEN HandlerResponse(h, Status99Tuple)
    ELSE IF outcome = "panic" /\ ~Caught(outcome) THEN Unwinding
    ELSE json_response(500, "Internal Server Error", <<>>)

\* ================================================= HTTP server lifecycle
Conns == 1..MaxConns
NoConn == 0
Limits == 0..MaxLimit

\* serve(addr): text that does not parse as a SocketAddr, an address the
\* listener can bind, an address the bind fails on.
Addrs == {"invalid", "free", "busy"}

\* The ways a connection task ends: the peer closes, an I/O error, a request
\* that timed out (408 sent, then close), a panic in the task, the graceful
\* shutdown of the connection.
TaskExits == {"close", "io_error", "timeout", "panic", "graceful"}

\* A client connection: not open, waiting in the listener's backlog, dropped by
\* the limiter, held by the accept loop, served by its task, in
\* ConnectionCleanup::drop after the fetch_sub, task finished and not yet
\* joined.
ConnStages == {"none", "pending", "rejected", "accepted", "serving", "dropping", "finished"}
NoConnection == [st |-> "none", how |-> "-"]

\* The thread has returned: after the drain, or early from a runtime or bind
\* error.
Exited == {"exited", "exited_runtime", "exited_bind"}

\* Tasks in join_set: spawned and not yet returned by join_next.
InJoinSet(c) == conn[c].st \in {"serving", "dropping", "finished"}

\* join_set.join_next() returns None
JoinSetNeverWaits == TRUE
JoinSetEmpty == \A c \in Conns : ~InJoinSet(c)

\* Option::take(): what it leaves in the field
Keep(opt) == opt
Take(opt) == "None"

\* serve: if self.handle.is_some()
NeverRunning(h) == FALSE
AlreadyRunning(h) == h = "Some"

\* connection_limiter.try_acquire_owned() succeeds
AcquireAlways(p) == TRUE
TryAcquire(p) == p > 0

\* the accept branch of select!: `if !shutdown_requested`
AcceptRegardless(requested) == TRUE
AcceptEnabled(requested) == ~requested

\* ConnectionCleanup::drop: counter.fetch_sub(1)
ActiveUnlessPanic(a, how) == IF how = "panic" THEN a ELSE a - 1
ActiveAfterCleanup(a, how) == a - 1

\* What handlers do when a connection's request reaches them.
ServerOutcomes == {"tuple", "error", "panic", "status99"}

\* The request a connection task is working on: no request in flight (idle),
\* handle_request awaiting the body, call_handler inside the Python call. late:
\* request_timeout has passed since the request began. status, out: the last
\* response written on the connection and what its handler had done.
NoReq == [ph |-> "idle", late |-> FALSE, status |-> 0, out |-> "-"]

\* tokio::time::timeout(request_timeout, handle_request(..)): the deadline is
\* looked at only when the wrapped future returns Pending, which the
\* synchronous Python::with_gil(.. handler.call1 ..) never does.
TimeoutFires(ph) == ph = "body"

\* ForziumHttpServer::new, before any thread exists
ServerInit ==
    /\ shutdown_tx = "None"
    /\ handle = "None"
    /\ connection_limit = MaxLimit
    /\ spc = "idle"
    /\ sresult = "-"
    /\ tpc = "none"
    /\ addr = "-"
    /\ limit = 0
    /\ rx = "none"
    /\ shutdown_requested = FALSE
    /\ listening = FALSE
    /\ permits = 0
    /\ active_connections = 0
    /\ accepted = NoConn
    /\ graceful = FALSE
    /\ conn = [c \in Conns |-> NoConnection]
    /\ req = [c \in Conns |-> NoReq]

\* set_connection_limit(n)
SetConnectionLimit(n) ==
    /\ spc = "idle"
    /\ n # connection_limit
    /\ connection_limit' = n
    /\ UNCHANGED <<shutdown_tx, handle, spc, sresult, tpc, addr, limit, rx,
                   shutdown_requested, listening, permits, active_connections,
                   accepted, graceful, conn>>
    /\ UNCHANGED req
    /\ UNCHANGED notServer

\* serve(a): refused when a handle is stored, a ValueError for an address
\* that does not parse; otherwise the channel is created, the thread is
\* spawned with the configuration moved into it, and the sender and the handle
\* are stored.
Serve(a) ==
    /\ spc = "idle"
    /\ IF AlreadyRunning(handle)
       THEN /\ sresult' = "server already running"
            /\ UNCHANGED <<shutdown_tx, handle, tpc, addr, limit, rx>>
       ELSE IF a = "invalid"
       THEN /\ sresult' = "invalid address"
            /\ UNCHANGED <<shutdown_tx, handle, tpc, addr, limit, rx>>
       ELSE /\ addr' = a
            /\ limit' = connection_limit
            /\ rx' = "open"
            /\ tpc' = "runtime"
            /\ shutdown_tx' = "Some"
            /\ handle' = "Some"
            /\ sresult' = "Ok"
    /\ UNCHANGED <<connection_limit, spc, shutdown_requested, listening, permits,
                   active_connections, accepted, graceful, conn>>
    /\ UNCHANGED req
    /\ UNCHANGED notServer

\* The thread's Runtime::new(): on an error the thread returns.
ThreadRuntime(ok) ==
    /\ tpc = "runtime"
    /\ IF ok
       THEN tpc' = "bind" /\ UNCHANGED rx
       ELSE tpc' = "exited_runtime" /\ rx' = "dropped"
    /\ UNCHANGED <<shutdown_tx, handle, connection_limit, spc, sresult, addr, limit,
                   shutdown_requested, listening, permits, active_connections,
                   accepted, graceful, conn>>
    /\ UNCHANGED req
    /\ UNCHANGED notServer

\* TcpListener::bind(addr): on an error the thread returns; otherwise the loop's
\* locals are created: graceful, join_set, shutdown_requested = false,
\* active_connections = 0, connection_limiter = Semaphore::new(connection_limit).
ThreadBind ==
    /\ tpc = "bind"
    /\ IF addr = "free"
       THEN /\ tpc' = "select"
            /\ listening' = TRUE
            /\ graceful' = FALSE
            /\ shutdown_requested' = FALSE
            /\ active_connections' = 0
            /\ permits' = limit
            /\ conn' = [c \in Conns |-> NoConnection]
            /\ UNCHANGED rx
       ELSE /\ tpc' = "exited_bind"
            /\ rx' = "dropped"
            /\ UNCHANGED <<listening, graceful, shutdown_requested,
                           active_connections, permits, conn>>
    /\ UNCHANGED <<shutdown_tx, handle, connection_limit, spc, sresult, addr, limit,
                   accepted>>
    /\ UNCHANGED req
    /\ UNCHANGED notServer

\* A client connects to the bound listener.
ClientConnect(c) ==
    /\ listening
    /\ conn[c].st \in {"none", "rejected"}
    /\ conn' = [conn EXCEPT ![c] = [st |-> "pending", how |-> "-"]]
    /\ UNCHANGED <<shutdown_tx, handle, connection_limit, spc, sresult, tpc, addr,
                   limit, rx, shutdown_requested, listening, permits,
                   active_connections, accepted, graceful>>
    /\ UNCHANGED req
    /\ UNCHANGED notServer

\* select!: `_ = &mut rx` is ready
LoopRecvShutdown ==
    /\ tpc = "select"
    /\ ~shutdown_requested
    /\ rx = "sent"
    /\ rx' = "received"
    /\ shutdown_requested' = TRUE
    /\ UNCHANGED <<shutdown_tx, handle, connection_limit, spc, sresult, tpc, addr,
                   limit, listening, permits, active_connections, accepted,
                   graceful, conn>>
    /\ UNCHANGED req
    /\ UNCHANGED notServer

\* select!: listener.accept() is ready; try_acquire_owned takes a permit, or
\* the stream is dropped and the loop continues.
LoopAccept(c) ==
    /\ tpc = "select"
    /\ AcceptEnabled(shutdown_requested)
    /\ conn[c].st = "pending"
    /\ IF TryAcquire(permits)
       THEN /\ permits' = permits - 1
            /\ accepted' = c
            /\ tpc' = "spawn"
            /\ conn' = [conn EXCEPT ![c].st = "accepted"]
       ELSE /\ conn' = [conn EXCEPT ![c].st = "rejected"]
            /\ UNCHANGED <<permits, accepted, tpc>>
    /\ UNCHANGED <<shutdown_tx, handle, connection_limit, spc, sresult, addr, limit,
                   rx, shutdown_requested, listening, active_connections,
                   graceful>>
    /\ UNCHANGED req
    /\ UNCHANGED notServer

\* active_connections.fetch_add(1); join_set.spawn(..): the task owns the
\* permit and the counter in its ConnectionCleanup.
LoopSpawn ==
    /\ tpc = "spawn"
    /\ active_connections' = active_connections + 1
    /\ conn' = [conn EXCEPT ![accepted].st = "serving"]
    /\ accepted' = NoConn
    /\ tpc' = "select"
    /\ UNCHANGED <<shutdown_tx, handle, connection_limit, spc, sresult, addr, limit,
                   rx, shutdown_requested, listening, permits, graceful>>
    /\ UNCHANGED req
    /\ UNCHANGED notServer

\* select!: join_set.join_next() returns a finished task
LoopJoinNext(c) ==
    /\ tpc = "select"
    /\ ~shutdown_requested
    /\ conn[c].st = "finished"
    /\ conn' = [conn EXCEPT ![c] = NoConnection]
    /\ UNCHANGED <<shutdown_tx, handle, connection_limit, spc, sresult, tpc, addr,
                   limit, rx, shutdown_requested, listening, permits,
                   active_connections, accepted, graceful>>
    /\ UNCHANGED req
    /\ UNCHANGED notServer

\* `if shutdown_requested { break }`, drop(listener), graceful.shutdown():
\* connections still in the backlog are closed with the listener.
LoopBreak ==
    /\ tpc = "select"
    /\ shutdown_requested
    /\ listening' = FALSE
    /\ graceful' = TRUE
    /\ conn' = [c \in Conns |-> IF conn[c].st = "pending" THEN NoConnection ELSE conn[c]]
    /\ tpc' = "graceful"
    /\ UNCHANGED <<shutdown_tx, handle, connection_limit, spc, sresult, addr, limit,
                   rx, shutdown_requested, permits, active_connections, accepted>>
    /\ UNCHANGED req
    /\ UNCHANGED notServer

\* A connection task ends in the way `how` (graceful only once
\* graceful.shutdown() was called): watcher.watch(connection) is over and
\* _cleanup is dropped, ConnectionCleanup::drop doing counter.fetch_sub(1).
TaskExit(c, how) ==
    /\ conn[c].st = "serving"
    /\ req[c].ph # "handler"
    /\ how = "graceful" => graceful
    /\ active_connections' = ActiveAfterCleanup(active_connections, how)
    /\ conn' = [conn EXCEPT ![c] = [st |-> "dropping", how |-> how]]
    /\ req' = [req EXCEPT ![c] = NoReq]
    /\ UNCHANGED <<shutdown_tx, handle, connection_limit, spc, sresult, tpc, addr,
                   limit, rx, shutdown_requested, listening, permits, accepted,
                   graceful>>
    /\ UNCHANGED notServer

\* The fields of ConnectionCleanup are dropped: the OwnedSemaphorePermit goes
\* back to connection_limiter; the task's JoinHandle becomes ready.
TaskReleasePermit(c) ==
    /\ conn[c].st = "dropping"
    /\ permits' = permits + 1
    /\ conn' = [conn EXCEPT ![c] =
                   [st |-> "finished",
                    how |-> IF conn[c].how = "panic" THEN "panic" ELSE "ok"]]
    /\ UNCHANGED <<shutdown_tx, handle, connection_limit, spc, sresult, tpc, addr,
                   limit, rx, shutdown_requested, listening, active_connections,
                   accepted, graceful>>
    /\ UNCHANGED req
    /\ UNCHANGED notServer

\* graceful.shutdown().await returns once every watched connection is over.
ThreadGracefulDone ==
    /\ tpc = "graceful"
    /\ \A c \in Conns : conn[c].st # "serving"
    /\ tpc' = "drain"
    /\ UNCHANGED <<shutdown_tx, handle, connection_limit, spc, sresult, addr, limit,
                   rx, shutdown_requested, listening, permits, active_connections,
                   accepted, graceful, conn>>
    /\ UNCHANGED req
    /\ UNCHANGED notServer

\* while let Some(res) = join_set.join_next().await
ThreadDrainJoin(c) ==
    /\ tpc = "drain"
    /\ conn[c].st = "finished"
    /\ conn' = [conn EXCEPT ![c] = NoConnection]
    /\ UNCHANGED <<shutdown_tx, handle, connection_limit, spc, sresult, tpc, addr,
                   limit, rx, shutdown_requested, listening, permits,
                   active_connections, accepted, graceful>>
    /\ UNCHANGED req
    /\ UNCHANGED notServer

\* join_next() returns None: block_on returns and the thread ends.
ThreadDrainDone ==
    /\ tpc = "drain"
    /\ JoinSetEmpty
    /\ tpc' = "exited"
    /\ UNCHANGED <<shutdown_tx, handle, connection_limit, spc, sresult, addr, limit,
                   rx, shutdown_requested, listening, permits, active_connections,
                   accepted, graceful, conn>>
    /\ UNCHANGED req
    /\ UNCHANGED notServer

\* shutdown(): the sender, if any, is taken and fired (an error from a dropped
\* receiver is ignored); the handle, if any, is taken and joined.
Shutdown ==
    /\ spc = "idle"
    /\ shutdown_tx' = Take(shutdown_tx)
    /\ rx' = IF shutdown_tx = "Some" /\ rx = "open" THEN "sent" ELSE rx
    /\ handle' = Take(handle)
    /\ IF handle = "Some"
       THEN spc' = "joining" /\ sresult' = "-"
       ELSE spc' = "idle" /\ sresult' = "shutdown"
    /\ UNCHANGED <<connection_limit, tpc, addr, limit, shutdown_requested, listening,
                   permits, active_connections, accepted, graceful, conn>>
    /\ UNCHANGED req
    /\ UNCHANGED notServer

\* handle.join() returns once the thread has ended.
ShutdownJoin ==
    /\ spc = "joining"
    /\ tpc \in Exited
    /\ spc' = "idle"
    /\ sresult' = "shutdown"
    /\ UNCHANGED <<shutdown_tx, handle, connection_limit, tpc, addr, limit, rx,
                   shutdown_requested, listening, permits, active_connections,
                   accepted, graceful, conn>>
    /\ UNCHANGED req
    /\ UNCHANGED notServer

\* A request arrives on a served connection: the service_fn closure starts
\* the timeout around handle_request, which awaits the body.
TaskRequest(c) ==
    /\ conn[c].st = "serving"
    /\ req[c].ph = "idle"
    /\ req' = [req EXCEPT ![c] = [ph |-> "body", late |-> FALSE,
                                  status |-> 0, out |-> "-"]]
    /\ UNCHANGED <<shutdown_tx, handle, connection_limit, spc, sresult, tpc, addr,
                   limit, rx, shutdown_requested, listening, permits,
                   active_connections, accepted, graceful, conn>>
    /\ UNCHANGED notServer

\* stream.collect().await is over and call_handler enters the Python call.
TaskBodyCollected(c) ==
    /\ conn[c].st = "serving"
    /\ req[c].ph = "body"
    /\ req' = [req EXCEPT ![c].ph = "handler"]
    /\ UNCHANGED <<shutdown_tx, handle, connection_limit, spc, sresult, tpc, addr,
                   limit, rx, shutdown_requested, listening, permits,
                   active_connections, accepted, graceful, conn>>
    /\ UNCHANGED notServer

\* request_timeout passes while the request is in flight: where the timeout
\* can fire, handle_request is dropped and 408 is the response; otherwise the
\* task goes on with the deadline behind it.
RequestTimeout(c) ==
    /\ conn[c].st = "serving"
    /\ req[c].ph \in {"body", "handler"}
    /\ ~req[c].late
    /\ IF TimeoutFires(req[c].ph)
       THEN req' = [req EXCEPT ![c] = [ph |-> "idle", late |-> FALSE,
                                       status |-> 408, out |-> "-"]]
       ELSE req' = [req EXCEPT ![c].late = TRUE]
    /\ UNCHANGED <<shutdown_tx, handle, connection_limit, spc, sresult, tpc, addr,
                   limit, rx, shutdown_requested, listening, permits,
                   active_connections, accepted, graceful, conn>>
    /\ UNCHANGED notServer

\* The Python call ends in the way `outcome` and call_handler returns its
\* response, which timeout(..) passes on as Ok(result); a panic that leaves
\* call_handler unwinds the connection task, dropping its ConnectionCleanup.
TaskHandlerReturns(c, outcome) ==
    LET r == call_handler(c, outcome)
    IN  /\ conn[c].st = "serving"
        /\ req[c].ph = "handler"
        /\ IF r = Unwinding
           THEN /\ active_connections' = ActiveAfterCleanup(active_connections, "panic")
                /\ conn' = [conn EXCEPT ![c] = [st |-> "dropping", how |-> "panic"]]
                /\ req' = [req EXCEPT ![c] = NoReq]
           ELSE /\ req' = [req EXCEPT ![c] = [ph |-> "idle", late |-> req[c].late,
                                              status |-> r.status, out |-> outcome]]
                /\ UNCHANGED <<active_connections, conn>>
        /\ UNCHANGED <<shutdown_tx, handle, connection_limit, spc, sresult, tpc,
                       addr, limit, rx, shutdown_requested, listening, permits,
                       accepted, graceful>>
        /\ UNCHANGED notServer

ServerNext ==
    \/ \E n \in Limits : SetConnectionLimit(n)
    \/ \E a \in Addrs : Serve(a)
    \/ \E ok \in BOOLEAN : ThreadRuntime(ok)
    \/ ThreadBind
    \/ \E c \in Conns : ClientConnect(c)
    \/ LoopRecvShutdown
    \/ \E c \in Conns : LoopAccept(c)
    \/ LoopSpawn
    \/ \E c \in Conns : LoopJoinNext(c)
    \/ LoopBreak
    \/ \E c \in Conns, how \in TaskExits : TaskExit(c, how)
    \/ \E c \in Conns : TaskReleasePermit(c)
    \/ ThreadGracefulDone
    \/ \E c \in Conns : ThreadDrainJoin(c)
    \/ ThreadDrainDone
    \/ Shutdown
    \/ ShutdownJoin
    \/ \E c \in Conns : TaskRequest(c)
    \/ \E c \in Conns : TaskBodyCollected(c)
    \/ \E c \in Conns : RequestTimeout(c)
    \/ \E c \in Conns, outcome \in ServerOutcomes : TaskHandlerReturns(c, outcome)


\* ========================================================= HTTP routing
\* Path segments, each a sequence of characters; a run of letters is written
\* as one character.
Health == <<"health">>
Ready == <<"ready">>
Live == <<"live">>
Word == <<"x">>
Seven == <<"7">>
MinusSeven == <<"-", "7">>
EmptyText == <<>>

Digits == {"7"}
Signs == {"-", "+"}

\* str::parse::<i64>().is_ok(): an optional sign and at least one digit, all
\* digits (values outside i64 are beyond the texts used here).
ParseI64Ok(text) ==
    LET body == IF Len(text) > 0 /\ text[1] \in Signs THEN Tail(text) ELSE text
    IN  Len(body) > 0 /\ \A i \in 1..Len(body) : body[i] \in Digits

\* A segment of a path template as split('/') yields it: literal text, or
\* `{..}` with the parts its inside splits into at ':'.
Lit(text) == [brace |-> FALSE, text |-> text, parts |-> <<>>]
Brace(parts) == [brace |-> TRUE, text |-> <<>>, parts |-> parts]

\* enum Segment
Static(text) == [kind |-> "Static", s |-> text, name |-> "-", ty |-> "-"]
Param(name, ty) == [kind |-> "Param", s |-> <<>>, name |-> name, ty |-> ty]

\* parse_pattern: empty segments are skipped; `{name:int}` is an Int capture,
\* any other `{..}` a Str capture, everything else a literal.
RECURSIVE parse_pattern(_)
parse_pattern(template) ==
    IF template = <<>> THEN <<>>
    ELSE LET seg == Head(template)
             rest == parse_pattern(Tail(template))
         IN  IF ~seg.brace /\ seg.text = EmptyText THEN rest
             ELSE IF seg.brace
             THEN <<Param(seg.parts[1],
                          IF Len(seg.parts) >= 2 /\ seg.parts[2] = "int"
                          THEN "Int" ELSE "Str")>> \o rest
             ELSE <<Static(seg.text)>> \o rest

\* enum Match
Miss == [tag |-> "Miss", params |-> <<>>, errors |-> <<>>]
MatchOk(params) == [tag |-> "Ok", params |-> params, errors |-> <<>>]
ValidationError(errors) == [tag |-> "ValidationError", params |-> <<>>, errors |-> errors]

\* PathValidationError pushed for an int capture that does not parse
PathValidationError(name) ==
    [loc |-> <<"path", name>>, msg |-> "value is not a valid integer",
     typ |-> "type_error.integer"]

\* errors.push(..): the new error goes to the end of the Vec
PushFront(errors, e) == <<e>> \o errors
PushError(errors, e) == Append(errors, e)

\* match_route's loop over pattern.iter().zip(path.iter()), from position i
\* with the params and errors collected so far.
RECURSIVE MatchFrom(_, _, _, _, _)
MatchFrom(pattern, path, i, params, errors) ==
    IF i > Len(pattern)
    THEN IF errors = <<>> THEN MatchOk(params) ELSE ValidationError(errors)
    ELSE LET seg == pattern[i]
             part == path[i]
         IN  IF seg.kind = "Static"
             THEN IF seg.s # part THEN Miss
                  ELSE MatchFrom(pattern, path, i + 1, params, errors)
             ELSE IF seg.ty = "Int" /\ ~ParseI64Ok(part)
             THEN MatchFrom(pattern, path, i + 1, params,
                            PushError(errors, PathValidationError(seg.name)))
             ELSE MatchFrom(pattern, path, i + 1, Append(params, part), errors)

\* match_route
match_route(pattern, path) ==
    IF Len(pattern) # Len(path) THEN Miss
    ELSE MatchFrom(pattern, path, 1, <<>>, <<>>)

\* handle_request: path.trim_matches('/').split('/').filter(|s| !s.is_empty())
\* of a path given as the texts between its slashes after the leading one.
path_segments(path) == SelectSeq(path, LAMBDA t : t # EmptyText)

\* The methods requests and routes use.
Methods == {"GET", "POST"}

\* The path templates given to add_route:
\* /health, /{id:int}, /{name}, /{a:int}/{b:int}, /x/{name:str}, /{id:int}/x
Templates ==
    { <<Lit(Health)>>,
      <<Brace(<<"id", "int">>)>>,
      <<Brace(<<"name">>)>>,
      <<Brace(<<"a", "int">>), Brace(<<"b", "int">>)>>,
      <<Lit(Word), Brace(<<"name", "str">>)>>,
      <<Brace(<<"id", "int">>), Lit(Word)>> }

\* The request paths:
\* /health, /ready, /live, /health/, /7, /-7, /x, /x/7, /x/x
Paths ==
    { <<Health>>, <<Ready>>, <<Live>>, <<Health, EmptyText>>, <<Seven>>,
      <<MinusSeven>>, <<Word>>, <<Word, Seven>>, <<Word, Word>> }

\* What a handler call comes to: a (status, body, headers) tuple, or a raised
\* error or panic.
HandlerOutcomes == {"tuple", "error"}

\* stream.collect().await? failed: handle_request returns Err(hyper::Error)
BodyError == [status |-> 0, body |-> "hyper::Error", detail |-> <<>>, by |-> 0]

\* the `for route in routes_for_method.iter()` loop ends at a route that
\* matches or fails validation
TriesPastValidationErrors(m) == m.tag = "Ok"
StopsLoop(m) == m.tag # "Miss"

\* the loop visits the routes in the order of the Vec
LastOf(S) == CHOOSE i \in S : \A j \in S : j <= i
FirstOf(S) == CHOOSE i \in S : \A j \in S : i <= j

\* The route the loop ends at for the method and the path, 0 for none.
RouteReached(method, path) ==
    LET rs == routes[method]
        stops == {i \in 1..Len(rs) :
                     StopsLoop(match_route(rs[i].pattern, path_segments(path)))}
    IN  IF stops = {} THEN 0 ELSE FirstOf(stops)

\* matches!(path.as_str(), "/health" | "/ready" | "/live")
FallbackPaths == {<<Health>>, <<Ready>>, <<Live>>}

\* ForziumHttpServer::new: an empty route table
RouteInit ==
    /\ routes = [m \in Methods |-> <<>>]
    /\ request = NoRequest
    /\ response = NoResponse
    /\ invoked = <<>>

\* add_route(method, path, handler): the parsed pattern and the handler are
\* pushed onto the Vec of the method. The handler is known by its
\* registration number.
AddRoute(method, template) ==
    LET registered == Len(routes["GET"]) + Len(routes["POST"])
    IN  /\ registered < MaxRoutes
        /\ routes' = [routes EXCEPT ![method] =
                        Append(@, [pattern |-> parse_pattern(template),
                                   handler |-> registered + 1])]
        /\ request' = NoRequest
        /\ response' = NoResponse
        /\ invoked' = <<>>
        /\ UNCHANGED notRoutes

\* handle_request for a request with the method and the path; bodyOk: the
\* body can be read; outcome: what the handler does if it is called.
HandleRequest(method, path, bodyOk, outcome) ==
    LET i == RouteReached(method, path)
        route == routes[method][i]
        m == match_route(route.pattern, path_segments(path))
    IN  /\ request' = [method |-> method, path |-> path]
        /\ IF i # 0 /\ m.tag = "Ok"
           THEN IF bodyOk
                THEN /\ invoked' = <<route.handler>>
                     /\ response' = call_handler(route.handler, outcome)
                ELSE /\ invoked' = <<>>
                     /\ response' = BodyError
           ELSE IF i # 0
           THEN /\ invoked' = <<>>
                /\ response' = json_response(422, "detail", m.errors)
           ELSE IF method = "GET" /\ path \in FallbackPaths
           THEN /\ invoked' = <<>>
                /\ response' = StatusOk
           ELSE /\ invoked' = <<>>
                /\ response' = json_response(404, "not found", <<>>)
        /\ UNCHANGED routes
        /\ UNCHANGED notRoutes

RouteNext ==
    \/ \E method \in Methods, template \in Templates : AddRoute(method, template)
    \/ \E method \in Methods, path \in Paths, outcome \in HandlerOutcomes :
          HandleRequest(method, path, TRUE, outcome)
    \/ \E method \in Methods, path \in Paths :
          HandleRequest(method, path, FALSE, "tuple")

\* ------------------------------------------------ call_handler on its own
\* The first items handlers put in a tuple, the second items, the third items.
StatusValues == {-1, 0, 99, 100, 200, 999, 1000, U16_MAX, U16_MAX + 1}
StatusItems == {PyInt(n) : n \in StatusValues} \cup {PyStr}
BodyItems == {PyStr, PyListStr, PyBytes, PyInt(200), PyNone, PyDict}
HeaderItems == {PyDict, PyNone}

\* What handlers return: tuples of three, (200, "..", {}) cut short or
\* lengthened with None, and objects that are no tuple.
ReturnedObjects ==
    {PyTupleOf(<<st, b, h>>) : st \in StatusItems, b \in BodyItems, h \in HeaderItems}
    \cup {PyTupleOf([i \in 1..n |-> IF i <= 3 THEN OkTuple.items[i] ELSE PyNone]) :
             n \in (0..MaxTupleLen) \ {3}}
    \cup {NotATuple(v) : v \in {PyNone, PyStr, PyDict, PyInt(200)}}

NoReturn == NotATuple([ty |-> "-", n |-> 0])

HandlerInit ==
    /\ returned = NoReturn
    /\ built = NoResponse

\* call_handler for a handler that returns obj
CallHandler(obj) ==
    /\ returned' = obj
    /\ built' = HandlerResponse(1, obj)
    /\ UNCHANGED notHandler

HandlerNext == \E obj \in ReturnedObjects : CallHandler(obj)

\* ------------------------------------- the route lock and the Python GIL
\* The Python thread that owns the server object, and the connection tasks on
\* the runtime's worker threads.
Host == 0
Tasks == 1..MaxTasks
LockThreads == {Host} \cup Tasks
Free == -1

LockInit ==
    /\ routes_lock = Free
    /\ gil = Free
    /\ lpc = [t \in LockThreads |-> "idle"]
    /\ pushed = 0

\* The host thread runs Python code: it holds the GIL.
HostTakesGil ==
    /\ lpc[Host] = "idle"
    /\ gil = Free
    /\ gil' = Host
    /\ lpc' = [lpc EXCEPT ![Host] = "python"]
    /\ UNCHANGED <<routes_lock, pushed>>
    /\ UNCHANGED notLocks

\* The interpreter switches away from the host thread.
HostDropsGil ==
    /\ lpc[Host] = "python"
    /\ gil' = Free
    /\ lpc' = [lpc EXCEPT ![Host] = "idle"]
    /\ UNCHANGED <<routes_lock, pushed>>
    /\ UNCHANGED notLocks

\* add_route is called from Python (the GIL is held throughout) and reaches
\* self.routes.lock().
AddRouteCall ==
    /\ lpc[Host] = "python"
    /\ pushed < MaxRoutes
    /\ lpc' = [lpc EXCEPT ![Host] = "add_lock"]
    /\ UNCHANGED <<routes_lock, gil, pushed>>
    /\ UNCHANGED notLocks

\* add_route: the lock is acquired, the route is pushed, the guard is dropped
\* when add_route returns.
AddRoutePush ==
    /\ lpc[Host] = "add_lock"
    /\ routes_lock = Free
    /\ pushed' = pushed + 1
    /\ lpc' = [lpc EXCEPT ![Host] = "python"]
    /\ UNCHANGED <<routes_lock, gil>>
    /\ UNCHANGED notLocks

\* handle_request: routes.lock() is acquired.
RequestLock(q) ==
    /\ lpc[q] = "idle"
    /\ routes_lock = Free
    /\ routes_lock' = q
    /\ lpc' = [lpc EXCEPT ![q] = "locked"]
    /\ UNCHANGED <<gil, pushed>>
    /\ UNCHANGED notLocks

\* guard.get(&method).cloned() with no route pushed for the method: None, the
\* guard is dropped, and the request is answered without a handler.
RequestNoRoutes(q) ==
    /\ lpc[q] = "locked"
    /\ pushed = 0
    /\ routes_lock' = Free
    /\ lpc' = [lpc EXCEPT ![q] = "idle"]
    /\ UNCHANGED <<gil, pushed>>
    /\ UNCHANGED notLocks

\* guard.get(&method).cloned() with routes: Route::clone enters
\* Python::with_gil, under the lock.
RequestCloneEnter(q) ==
    /\ lpc[q] = "locked"
    /\ pushed > 0
    /\ lpc' = [lpc EXCEPT ![q] = "clone_gil"]
    /\ UNCHANGED <<routes_lock, gil, pushed>>
    /\ UNCHANGED notLocks

\* Route::clone: the GIL is acquired for handler.clone_ref(py).
RequestCloneGil(q) ==
    /\ lpc[q] = "clone_gil"
    /\ gil = Free
    /\ gil' = q
    /\ lpc' = [lpc EXCEPT ![q] = "cloning"]
    /\ UNCHANGED <<routes_lock, pushed>>
    /\ UNCHANGED notLocks

\* The clones are made: the GIL is released, then the guard is dropped at the
\* end of the block.
RequestUnlock(q) ==
    /\ lpc[q] = "cloning"
    /\ gil' = Free
    /\ routes_lock' = Free
    /\ lpc' = [lpc EXCEPT ![q] = "dispatch"]
    /\ UNCHANGED pushed
    /\ UNCHANGED notLocks

\* A route matches, the body is read, and call_handler takes the GIL for the
\* handler call.
RequestCallHandler(q) ==
    /\ lpc[q] = "dispatch"
    /\ gil = Free
    /\ gil' = q
    /\ lpc' = [lpc EXCEPT ![q] = "handler"]
    /\ UNCHANGED <<routes_lock, pushed>>
    /\ UNCHANGED notLocks

\* The running handler blocks in Python (sleep, I/O): the interpreter releases
\* the GIL until the handler goes on.
HandlerBlocks(q) ==
    /\ lpc[q] = "handler"
    /\ gil' = Free
    /\ lpc' = [lpc EXCEPT ![q] = "handler_blocked"]
    /\ UNCHANGED <<routes_lock, pushed>>
    /\ UNCHANGED notLocks

HandlerResumes(q) ==
    /\ lpc[q] = "handler_blocked"
    /\ gil = Free
    /\ gil' = q
    /\ lpc' = [lpc EXCEPT ![q] = "handler"]
    /\ UNCHANGED <<routes_lock, pushed>>
    /\ UNCHANGED notLocks

\* The handler returns; with_gil ends and the response goes out.
HandlerDone(q) ==
    /\ lpc[q] = "handler"
    /\ gil' = Free
    /\ lpc' = [lpc EXCEPT ![q] = "idle"]
    /\ UNCHANGED <<routes_lock, pushed>>
    /\ UNCHANGED notLocks

LockNext ==
    \/ HostTakesGil
    \/ HostDropsGil
    \/ AddRouteCall
    \/ AddRoutePush
    \/ \E q \in Tasks : RequestLock(q)
    \/ \E q \in Tasks : RequestNoRoutes(q)
    \/ \E q \in Tasks : RequestCloneEnter(q)
    \/ \E q \in Tasks : RequestCloneGil(q)
    \/ \E q \in Tasks : RequestUnlock(q)
    \/ \E q \in Tasks : RequestCallHandler(q)
    \/ \E q \in Tasks : HandlerBlocks(q)
    \/ \E q \in Tasks : HandlerResumes(q)
    \/ \E q \in Tasks : HandlerDone(q)

\* ================================================== thread pool manager
\* The threads calling into the manager.
Callers == {"k1", "k2"}

AtLeast(a, b) == IF a >= b THEN a ELSE b

\* ThreadPoolConfig (thread_count, thread_lifetime_ms, breadth_first,
\* use_numa_affinity; stack_size is 2 MB throughout)
NoConfig ==
    [thread_count |-> 0, thread_lifetime_ms |-> 0, breadth_first |-> FALSE,
     use_numa_affinity |-> FALSE]

\* impl Default for ThreadPoolConfig
DefaultConfig(cores) ==
    [thread_count |-> cores, thread_lifetime_ms |-> 10000, breadth_first |-> FALSE,
     use_numa_affinity |-> FALSE]

\* initialize_optimal_thread_pools: optimal_threads
optimal_threads(total, physical) ==
    AtLeast(IF physical > 0 THEN physical + 1 ELSE (total * 3) \div 4, 1)

\* initialize_optimal_thread_pools: config
OptimalConfig(total, physical) ==
    [thread_count |-> optimal_threads(total, physical), thread_lifetime_ms |-> 30000,
     breadth_first |-> FALSE, use_numa_affinity |-> TRUE]

\* The configurations given to configure_global_thread_pool.
CustomConfigs ==
    {[thread_count |-> MaxCores + 1, thread_lifetime_ms |-> 0, breadth_first |-> TRUE,
      use_numa_affinity |-> TRUE]}

\* detect_numa: the number of nodes (0: None)
numa_nodes(total, physical) ==
    IF physical > 0 /\ total >= physical
    THEN IF total \div physical > 0 THEN physical \div (total \div physical) ELSE 1
    ELSE 1

\* A rayon ThreadPool: which build it is, and what it was built with.
NoThreadPool == [id |-> -1, threads |-> 0, lifetime |-> 0, breadth_first |-> FALSE]

\* create_pool(config), the id-th pool built; num_threads(0) lets rayon choose
\* one thread per logical core.
create_pool(cfg, id) ==
    [id |-> id,
     threads |-> IF cfg.thread_count = 0 THEN total_cores ELSE cfg.thread_count,
     lifetime |-> cfg.thread_lifetime_ms,
     breadth_first |-> cfg.breadth_first]

\* Names of specialized pools: "io", "compute", "numa_<node>"
PoolName(kind, node) == [kind |-> kind, node |-> node]
LookupNames == {"io", "compute"}

NoLocal == [name |-> PoolName("-", 0), n |-> 0, via |-> "-"]

\* update_config: *self.config.write() = new_config
ConfigKept(old, new) == old
ConfigStored(old, new) == new

\* get_or_create_specialized_pool's scan: the positions holding the name
Entries(name) ==
    {i \in 1..Len(specialized_pools) : specialized_pools[i].name = name}

TpInit ==
    /\ manager = FALSE
    /\ total_cores = 0
    /\ physical_cores = 0
    /\ config = NoConfig
    /\ default_pool = NoThreadPool
    /\ specialized_pools = <<>>
    /\ kpc = [k \in Callers |-> "idle"]
    /\ klocal = [k \in Callers |-> NoLocal]
    /\ handed = [n \in LookupNames |-> {}]
    /\ configured = NoConfig
    /\ made = 0
    /\ tpCallsLeft = MaxTpCalls

\* First use of THREAD_POOL_MANAGER on a machine with the given core counts:
\* ThreadPoolManager::new(ThreadPoolConfig::default()).
ManagerNew(total, physical) ==
    /\ ~manager
    /\ manager' = TRUE
    /\ total_cores' = total
    /\ physical_cores' = physical
    /\ config' = DefaultConfig(total)
    /\ configured' = DefaultConfig(total)
    /\ default_pool' = create_pool(DefaultConfig(total), 0)
    /\ made' = 1
    /\ UNCHANGED <<specialized_pools, kpc, klocal, handed, tpCallsLeft>>
    /\ UNCHANGED notThreadPools

\* get_or_create_specialized_pool(name, n): the scan under the read lock
\* returns the first pool of that name; with none, create_specialized_pool is
\* called after the read lock is released.
GetOrCreate(k, kind, n) ==
    LET name == PoolName(kind, 0)
        found == Entries(name)
    IN  /\ manager
        /\ kpc[k] = "idle"
        /\ tpCallsLeft > 0
        /\ tpCallsLeft' = tpCallsLeft - 1
        /\ IF found # {}
           THEN /\ handed' = [handed EXCEPT ![kind] =
                                 @ \cup {specialized_pools[FirstOf(found)].pool.id}]
                /\ UNCHANGED <<kpc, klocal>>
           ELSE /\ kpc' = [kpc EXCEPT ![k] = "create"]
                /\ klocal' = [klocal EXCEPT ![k] =
                                 [name |-> name, n |-> n, via |-> "get"]]
                /\ UNCHANGED handed
        /\ UNCHANGED <<manager, total_cores, physical_cores, config, default_pool,
                       specialized_pools, configured, made>>
        /\ UNCHANGED notThreadPools

\* run_in_compute_pool: get_or_create_specialized_pool("compute", num_cpus::get())
RunInComputePool(k) == GetOrCreate(k, "compute", total_cores)

\* run_in_io_pool: get_or_create_specialized_pool("io", (num_cpus::get() / 4).max(2))
RunInIoPool(k) == GetOrCreate(k, "io", AtLeast(total_cores \div 4, 2))

\* create_specialized_pool(name, n): the stored config is read and cloned,
\* thread_count is replaced, the pool is built, pushed under the write lock
\* and returned. get_or_create_specialized_pool returns it to its caller;
\* initialize_optimal_thread_pools goes on to its next pool: "compute" after
\* "io", then one pool per NUMA node when there is more than one node.
CreateSpecializedPool(k) ==
    LET l == klocal[k]
        pool == create_pool([config EXCEPT !.thread_count = l.n], made)
        nodes == numa_nodes(total_cores, physical_cores)
        next == IF l.via = "get" THEN NoLocal
                ELSE IF l.name.kind = "io"
                THEN [name |-> PoolName("compute", 0),
                      n |-> optimal_threads(total_cores, physical_cores),
                      via |-> "init"]
                ELSE IF l.name.kind = "compute" /\ nodes > 1
                THEN [name |-> PoolName("numa", 0), n |-> total_cores \div nodes,
                      via |-> "init"]
                ELSE IF l.name.kind = "numa" /\ l.name.node + 1 < nodes
                THEN [name |-> PoolName("numa", l.name.node + 1),
                      n |-> total_cores \div nodes, via |-> "init"]
                ELSE NoLocal
    IN  /\ kpc[k] = "create"
        /\ made' = made + 1
        /\ specialized_pools' = Append(specialized_pools, [name |-> l.name, pool |-> pool])
        /\ handed' = IF l.via = "get"
                     THEN [handed EXCEPT ![l.name.kind] = @ \cup {pool.id}]
                     ELSE handed
        /\ klocal' = [klocal EXCEPT ![k] = next]
        /\ kpc' = [kpc EXCEPT ![k] = IF next = NoLocal THEN "idle" ELSE "create"]
        /\ UNCHANGED <<manager, total_cores, physical_cores, config, default_pool,
                       configured, tpCallsLeft>>
        /\ UNCHANGED notThreadPools

\* update_config(new_config)
UpdateConfig(new_config) ==
    /\ config' = ConfigStored(config, new_config)
    /\ configured' = new_config
    /\ UNCHANGED <<manager, total_cores, physical_cores, default_pool,
                   specialized_pools, handed, made>>

\* configure_global_thread_pool(thread_count, stack_size, thread_lifetime_ms,
\* breadth_first)
ConfigureGlobalThreadPool(k, new_config) ==
    /\ manager
    /\ kpc[k] = "idle"
    /\ tpCallsLeft > 0
    /\ new_config # configured
    /\ tpCallsLeft' = tpCallsLeft - 1
    /\ UpdateConfig(new_config)
    /\ UNCHANGED <<kpc, klocal>>
    /\ UNCHANGED notThreadPools

\* initialize_optimal_thread_pools: the optimal configuration is stored, then
\* create_specialized_pool("io", io_threads) begins.
InitializeOptimal(k) ==
    /\ manager
    /\ kpc[k] = "idle"
    /\ tpCallsLeft > 0
    /\ tpCallsLeft' = tpCallsLeft - 1
    /\ UpdateConfig(OptimalConfig(total_cores, physical_cores))
    /\ kpc' = [kpc EXCEPT ![k] = "create"]
    /\ klocal' = [klocal EXCEPT ![k] =
                     [name |-> PoolName("io", 0), n |-> AtLeast(total_cores \div 4, 2),
                      via |-> "init"]]
    /\ UNCHANGED notThreadPools

ThreadPoolNext ==
    \/ \E total \in 1..MaxCores, physical \in 0..MaxCores :
          physical <= total /\ ManagerNew(total, physical)
    \/ \E k \in Callers : RunInComputePool(k)
    \/ \E k \in Callers : RunInIoPool(k)
    \/ \E k \in Callers : CreateSpecializedPool(k)
    \/ \E k \in Callers, c \in CustomConfigs : ConfigureGlobalThreadPool(k, c)
    \/ \E k \in Callers : InitializeOptimal(k)

\* ============================================================ tensor ops
\* A matrix (&[Vec<f64>]) is kept by the lengths of its rows: validation,
\* dispatch and indexing depend on the lengths only, never on the values.
RowLens == 0..MaxCols
Matrices == UNION {[1..n -> RowLens] : n \in 0..MaxRows}

\* What a call returned: Err(ForziumError::Validation(msg)), Ok(..) after
\* `tasks` task guards, or no return at all: a panic from a bounds-checked
\* index, or the process killed by a load past the end of a row. `outside`:
\* an index or a load past the end of a row was executed.
NoOutcome == [res |-> "-", msg |-> "", tasks |-> 0, outside |-> FALSE]
Rejected(msg) == [res |-> "Validation", msg |-> msg, tasks |-> 0, outside |-> FALSE]
Computed(n) == [res |-> "Ok", msg |-> "", tasks |-> n, outside |-> FALSE]
IndexPanic == [res |-> "Panic", msg |-> "index out of bounds", tasks |-> 0, outside |-> TRUE]
\* An unchecked load of lanes past the end of the row's buffer is undefined
\* behaviour: the call goes on with whatever was read and returns Ok, panics
\* at a later checked index, or the process is killed.
LoadedOutside ==
    {[res |-> r, msg |-> "", tasks |-> 0, outside |-> TRUE] : r \in {"Ok", "Panic", "Abort"}}

\* validate_matrix: m.iter().any(|r| r.len() != cols)
RaggedUnchecked(m, cols) == FALSE
Ragged(m, cols) == \E r \in 1..Len(m) : m[r] # cols

\* validate_matrix(m): Ok((rows, cols)) or the message of its error
validate_matrix(m) ==
    IF m = <<>> \/ m[1] = 0
    THEN [err |-> "empty tensor", rows |-> 0, cols |-> 0]
    ELSE IF Ragged(m, m[1])
    THEN [err |-> "ragged tensor", rows |-> 0, cols |-> 0]
    ELSE [err |-> "", rows |-> Len(m), cols |-> m[1]]

\* validate_same_shape(a, b)
validate_same_shape(a, b) ==
    LET va == validate_matrix(a)
        vb == validate_matrix(b)
    IN IF va.err # "" THEN va
       ELSE IF vb.err # "" THEN vb
       ELSE IF va.rows # vb.rows \/ va.cols # vb.cols
       THEN [err |-> "shape mismatch", rows |-> 0, cols |-> 0]
       ELSE va

\* multiply(m, factor) and add(m, addend): validate_matrix(m)?, then one task
\* guard for each row of m.
multiply(m) ==
    LET v == validate_matrix(m)
    IN IF v.err # "" THEN Rejected(v.err) ELSE Computed(v.rows)

\* matmul(a, b) and simd_matmul(a, b): both matrices validated, cols_a against
\* rows_b, then one task guard for each row of a. simd_matmul's transpose(b)
\* validates b once more; its loads stay inside rows of cols_a elements.
matmul(a, b) ==
    LET va == validate_matrix(a)
        vb == validate_matrix(b)
    IN IF va.err # "" THEN Rejected(va.err)
       ELSE IF vb.err # "" THEN Rejected(vb.err)
       ELSE IF va.cols # vb.rows THEN Rejected("shape mismatch")
       ELSE Computed(va.rows)

\* elementwise_add(a, b) and hadamard(a, b): validate_same_shape(a, b)?, then
\* one task guard for each pair of rows.
elementwise_add(a, b) ==
    LET v == validate_same_shape(a, b)
    IN IF v.err # "" THEN Rejected(v.err) ELSE Computed(v.rows)

\* conv2d(input, kernel): one task guard for each output row.
conv2d(input, kernel) ==
    LET vi == validate_matrix(input)
        vk == validate_matrix(kernel)
    IN IF vi.err # "" THEN Rejected(vi.err)
       ELSE IF vk.err # "" THEN Rejected(vk.err)
       ELSE IF vi.rows < vk.rows \/ vi.cols < vk.cols
       THEN Rejected("kernel larger than input")
       ELSE Computed(vi.rows - vk.rows + 1)

\* max_pool2d(input, size): one task guard for each output row.
max_pool2d(input, sz) ==
    LET vi == validate_matrix(input)
    IN IF vi.err # "" THEN Rejected(vi.err)
       ELSE IF sz = 0 \/ vi.rows % sz # 0 \/ vi.cols % sz # 0
       THEN Rejected("invalid pool size")
       ELSE Computed(vi.rows \div sz)

\* The operations of tensor_ops.rs that create task guards.
TensorOps == {"multiply", "add", "matmul", "simd_matmul", "elementwise_add",
              "hadamard", "conv2d", "max_pool2d"}
\* Those that read a second matrix.
BinaryOps == {"matmul", "simd_matmul", "elementwise_add", "hadamard", "conv2d"}
PoolSizes == 0..MaxCols

TensorOp(op, a, b, sz) ==
    CASE op \in {"multiply", "add"} -> multiply(a)
      [] op \in {"matmul", "simd_matmul"} -> matmul(a, b)
      [] op \in {"elementwise_add", "hadamard"} -> elementwise_add(a, b)
      [] op = "conv2d" -> conv2d(a, b)
      [] OTHER -> max_pool2d(a, sz)

\* ---------------------------------------------------------- simd_ops.rs
\* detect_simd_support(): what the CPU and the build give.
SimdLevels == {"avx512f", "avx2", "avx", "sse4.2", "neon", "basic"}
\* f64 lanes of one load: _mm512_loadu_pd, _mm256_loadu_pd, vld1q_f64
Lanes(level) == IF level = "avx512f" THEN 8 ELSE IF level = "avx2" THEN 4 ELSE 2
\* The levels optimal_matmul and optimal_add have a kernel for.
HasKernel(level) == level \in {"avx512f", "avx2", "neon"}

\* The values of k at which `while k + lanes <= cols` loads.
VectorSteps(cols, lanes) == {k \in 0..cols : k % lanes = 0 /\ k + lanes <= cols}

\* The first step of a set of steps.
FirstStep(steps) == CHOOSE k \in steps : \A j \in steps : k <= j

\* What one row of len elements does to the k loop of a matmul kernel that
\* runs to cols: "none", a "panic" (row_a[k..] with k > len in the x86
\* kernels, &row_a[k] with k >= len in matmul_neon, row_a[k] in the scalar
\* tail), or a "load" past the end of the row.
MatmulRowEvent(len, cols, level) ==
    LET bad == {k \in VectorSteps(cols, Lanes(level)) : k + Lanes(level) > len}
        k0 == FirstStep(bad)
    IN IF len >= cols THEN "none"
       ELSE IF bad = {} THEN "panic"
       ELSE IF level = "neon" THEN (IF k0 >= len THEN "panic" ELSE "load")
       ELSE (IF k0 > len THEN "panic" ELSE "load")

\* The same for a pair of rows in the j loop of an add kernel: &row_a[j] is
\* checked and loaded from, then &row_b[j].
AddRowEvent(len_a, len_b, cols, level) ==
    LET lanes == Lanes(level)
        bad == {j \in VectorSteps(cols, lanes) : j + lanes > len_a \/ j + lanes > len_b}
        j0 == FirstStep(bad)
    IN IF len_a >= cols /\ len_b >= cols THEN "none"
       ELSE IF bad = {} THEN "panic"
       ELSE IF j0 >= len_a THEN "panic"
       ELSE IF j0 + lanes > len_a THEN "load"
       ELSE IF j0 >= len_b THEN "panic"
       ELSE "load"

\* The event of the first row that has one.
FirstEvent(events) ==
    LET rows == {i \in 1..Len(events) : events[i] # "none"}
    IN IF rows = {} THEN "none" ELSE events[FirstStep(rows)]

\* What the loops of a kernel end in.
AfterLoops(event) ==
    IF event = "none" THEN {Computed(0)}
    ELSE IF event = "panic" THEN {IndexPanic}
    ELSE LoadedOutside

\* matmul_avx512, matmul_avx2, matmul_neon: rows_a == 0, rows_b == 0 or
\* b[0].is_empty(), cols_a != rows_b; then bt[j][i] = b[i][j] for j < cols_b,
\* then the k loop over every row of a.
matmul_kernel(a, b, level) ==
    IF a = <<>> THEN {Rejected("empty matrix")}
    ELSE IF b = <<>> \/ b[1] = 0 THEN {Rejected("empty matrix")}
    ELSE IF a[1] # Len(b) THEN {Rejected("incompatible dimensions")}
    ELSE IF \E i \in 1..Len(b) : b[i] < b[1] THEN {IndexPanic}
    ELSE AfterLoops(FirstEvent([i \in 1..Len(a) |-> MatmulRowEvent(a[i], a[1], level)]))

\* optimal_matmul's fallback arm: rows_a == 0, rows_b == 0, cols_a != rows_b;
\* then a[i][k] * b[k][j] for j < cols_b, k < cols_a.
matmul_basic(a, b) ==
    IF a = <<>> THEN {Rejected("empty matrix")}
    ELSE IF b = <<>> THEN {Rejected("empty matrix")}
    ELSE IF a[1] # Len(b) THEN {Rejected("incompatible dimensions")}
    ELSE IF /\ b[1] > 0
            /\ \/ \E i \in 1..Len(a) : a[i] < a[1]
               \/ \E k \in 1..Len(b) : b[k] < b[1]
    THEN {IndexPanic}
    ELSE {Computed(0)}

\* optimal_matmul(a, b)
optimal_matmul(a, b, level) ==
    IF HasKernel(level) THEN matmul_kernel(a, b, level) ELSE matmul_basic(a, b)

\* add_avx512, add_avx2, add_neon: rows == 0 or a[0].is_empty(),
\* rows != b.len() or cols != b[0].len(); then the j loop over every row.
add_kernel(a, b, level) ==
    IF a = <<>> \/ a[1] = 0 THEN {Rejected("empty matrix")}
    ELSE IF Len(a) # Len(b) \/ a[1] # b[1] THEN {Rejected("same dimensions")}
    ELSE AfterLoops(FirstEvent([i \in 1..Len(a) |-> AddRowEvent(a[i], b[i], a[1], level)]))

\* optimal_add's fallback arm: rows == 0, rows != b.len() or a row of b not
\* of cols elements; then a[i][j] + b[i][j] for j < cols.
add_basic(a, b) ==
    IF a = <<>> THEN {Rejected("empty matrix")}
    ELSE IF Len(a) # Len(b) \/ \E i \in 1..Len(b) : b[i] # a[1]
    THEN {Rejected("same dimensions")}
    ELSE IF \E i \in 1..Len(a) : a[i] < a[1] THEN {IndexPanic}
    ELSE {Computed(0)}

\* optimal_add(a, b)
optimal_add(a, b, level) ==
    IF HasKernel(level) THEN add_kernel(a, b, level) ELSE add_basic(a, b)

OptimalOps == {"optimal_matmul", "optimal_add"}

OptimalOp(op, a, b, level) ==
    IF op = "optimal_matmul" THEN optimal_matmul(a, b, level) ELSE optimal_add(a, b, level)

\* ------------------------------------------------------------ engine.rs
\* ComputeEngine::default(): the names the registry holds
Registry == {"multiply", "add", "matmul"}
\* The operation names a caller passes: the registered ones and another.
OperationNames == Registry \cup {"nope"}
\* cancel: Option<bool>
CancelArgs == {"None", "Some(false)", "Some(true)"}
\* The entry of params the operation reads: absent, of the wrong type, or
\* one that extracts.
ParamKinds == {"missing", "invalid", "valid"}

\* cancel.unwrap_or(false)
NeverCancelled(cancel) == FALSE
Cancelled(cancel) == cancel = "Some(true)"

\* Err(ForziumError::Cancelled(..)) and Err(ForziumError::Compute(..))
CancelledError == [res |-> "Cancelled", msg |-> "operation cancelled", tasks |-> 0,
                   outside |-> FALSE]
ComputeError(msg) == [res |-> "Compute", msg |-> msg, tasks |-> 0, outside |-> FALSE]

\* op_multiply and op_add: the factor or addend defaults when absent
op_multiply(data, params, what) ==
    IF params = "invalid" THEN Rejected(what) ELSE multiply(data)

\* op_matmul: matrix_b is required
op_matmul(data, params, other) ==
    IF params = "invalid" THEN Rejected("matrix_b invalid")
    ELSE IF params = "missing" THEN Rejected("matrix_b missing")
    ELSE matmul(data, other)

\* compute(data, operation, params, cancel): what it returns, and whether it
\* got as far as self.registry.get(operation)
compute(data, operation, params, other, cancel) ==
    IF Cancelled(cancel) THEN [out |-> CancelledError, lookup |-> "none"]
    ELSE IF operation \in Registry
    THEN [out |-> CASE operation = "multiply" -> op_multiply(data, params, "factor invalid")
                    [] operation = "add" -> op_multiply(data, params, "addend invalid")
                    [] OTHER -> op_matmul(data, params, other),
          lookup |-> "found"]
    ELSE [out |-> ComputeError("unsupported operation"), lookup |-> "missing"]

\* No compute call made.
NoCompute == [cancel |-> "None", lookup |-> "none"]

\* ------------------------------------------------------ the tensor caller
\* No call made yet.
NoOp == "-"

TensorInit ==
    /\ tensor_a = <<>>
    /\ tensor_b = <<>>
    /\ tensor_pc = "new"
    /\ tensor_op = NoOp
    /\ tensor_size = 0
    /\ tensor_out = NoOutcome
    /\ compute_call = NoCompute

\* The METRICS static once the n guards of one call have been created and
\* dropped (the call returns after its par_iter has joined): at most `most`
\* of them were live at once, and each lived for d nanoseconds.
AfterTasksDetached(m, n, d, most) ==
    [m EXCEPT !.tasks_started = @ + n,
              !.active_workers = @ + n,
              !.max_active_workers = AtLeast(@, m.active_workers + n),
              !.max_threads_observed = AtLeast(@, RayonThreads)]
AfterTasks(m, n, d, most) ==
    [m EXCEPT !.tasks_started = @ + n,
              !.tasks_completed = @ + n,
              !.max_active_workers = AtLeast(@, m.active_workers + most),
              !.max_threads_observed = AtLeast(@, RayonThreads),
              !.busy_time_nanos = @ + n * d,
              !.max_task_time_nanos = AtLeast(@, d),
              !.min_task_time_nanos = IF d < @ THEN d ELSE @]

\* The caller builds the matrices it is going to pass.
TensorArgs ==
    /\ tensor_pc = "new"
    /\ \E a \in Matrices, b \in Matrices :
          /\ tensor_a' = a
          /\ tensor_b' = b
    /\ tensor_pc' = "idle"
    /\ UNCHANGED <<tensor_op, tensor_size, tensor_out, compute_call>>
    /\ UNCHANGED mvars
    /\ UNCHANGED notTensor

\* One of the operations of tensor_ops.rs is called and returns: validation
\* first, and only then the parallel iterator whose closures create and drop
\* the task guards.
TensorCall(op, sz) ==
    LET out == TensorOp(op, tensor_a, tensor_b, sz)
    IN /\ tensor_pc = "idle"
       /\ out.tasks <= callsLeft
       /\ tensor_pc' = "returned"
       /\ tensor_op' = op
       /\ tensor_size' = sz
       /\ tensor_out' = out
       /\ IF out.tasks = 0
          THEN UNCHANGED mvars
          ELSE /\ \E d \in Durations, most \in 1..out.tasks :
                     metrics' = AfterTasks(metrics, out.tasks, d, most)
               /\ callsLeft' = callsLeft - out.tasks
               /\ UNCHANGED <<observation_start, mpc, current, active, nanos, ridx,
                              guards, mresult, created, rclean, overlapped, peak_held,
                              leaving, dropped>>
       /\ UNCHANGED <<tensor_a, tensor_b, compute_call>>
       /\ UNCHANGED notTensor

\* optimal_matmul or optimal_add is called on a machine of the given SIMD
\* level: no task guard in simd_ops.rs.
OptimalCall(op, level) ==
    /\ tensor_pc = "idle"
    /\ \E out \in OptimalOp(op, tensor_a, tensor_b, level) : tensor_out' = out
    /\ tensor_pc' = "returned"
    /\ tensor_op' = op
    /\ tensor_size' = 0
    /\ UNCHANGED <<tensor_a, tensor_b, compute_call>>
    /\ UNCHANGED mvars
    /\ UNCHANGED notTensor

\* The caller has looked at what the call returned and goes on; a call that
\* panicked or killed the process is the caller's last.
TensorResume ==
    /\ tensor_pc \in {"returned", "computed"}
    /\ tensor_out.res \in {"Validation", "Ok", "Cancelled", "Compute"}
    /\ tensor_pc' = "idle"
    /\ tensor_op' = NoOp
    /\ tensor_size' = 0
    /\ tensor_out' = NoOutcome
    /\ compute_call' = NoCompute
    /\ UNCHANGED <<tensor_a, tensor_b>>
    /\ UNCHANGED mvars
    /\ UNCHANGED notTensor

\* ComputeEngine::compute is called with tensor_a as data and, when the
\* params hold one, tensor_b as matrix_b, and returns.
EngineCompute(operation, params, cancel) ==
    LET r == compute(tensor_a, operation, params, tensor_b, cancel)
    IN /\ tensor_pc = "idle"
       /\ r.out.tasks <= callsLeft
       /\ tensor_pc' = "computed"
       /\ tensor_op' = operation
       /\ tensor_size' = 0
       /\ tensor_out' = r.out
       /\ compute_call' = [cancel |-> cancel, lookup |-> r.lookup]
       /\ IF r.out.tasks = 0
          THEN UNCHANGED mvars
          ELSE /\ \E d \in Durations, most \in 1..r.out.tasks :
                     metrics' = AfterTasks(metrics, r.out.tasks, d, most)
               /\ callsLeft' = callsLeft - r.out.tasks
               /\ UNCHANGED <<observation_start, mpc, current, active, nanos, ridx,
                              guards, mresult, created, rclean, overlapped, peak_held,
                              leaving, dropped>>
       /\ UNCHANGED <<tensor_a, tensor_b>>
       /\ UNCHANGED notTensor

TensorNext ==
    \/ TensorArgs
    \/ \E operation \in OperationNames, params \in ParamKinds, cancel \in CancelArgs :
          EngineCompute(operation, params, cancel)
    \/ \E op \in TensorOps, sz \in PoolSizes :
          (op = "max_pool2d" \/ sz = 0) /\ TensorCall(op, sz)
    \/ \E op \in OptimalOps, level \in SimdLevels : OptimalCall(op, level)
    \/ TensorResume

\* ===================================================== resource_limits.rs
\* The threads that acquire and drop OpGuards.
OpThreads == Threads

\* RESOURCE_LIMITS: max_concurrent_ops: AtomicUsize::new(16)
DEFAULT_MAX_CONCURRENT_OPS == 16
\* The limits a caller stores into max_concurrent_ops.
ConcurrentLimits == 1..MaxConcurrent

\* try_new: if active >= max. Both are usize: an active_ops that was
\* decremented below zero has wrapped to 2^64 + active_ops, above every max.
ActiveAboveMax(a, max) == a < 0 \/ a > max
ActiveAtMax(a, max) == a < 0 \/ a >= max

LimitInit ==
    /\ enabled = 1
    /\ max_concurrent_ops = DEFAULT_MAX_CONCURRENT_OPS
    /\ active_ops = 0
    /\ opc = [t \in OpThreads |-> "idle"]
    /\ op_active = [t \in OpThreads |-> 0]
    /\ op_max = [t \in OpThreads |-> 0]
    /\ counted_guards = [t \in OpThreads |-> 0]
    /\ uncounted_guards = [t \in OpThreads |-> 0]
    /\ op_result = [t \in OpThreads |-> "-"]
    /\ tryLeft = MaxTryNew
    /\ steady = TRUE

\* The OpGuards that exist, and whether any thread is inside try_new or drop.
CountedOpGuards ==
    Cardinality({g \in OpThreads \X (1..MaxTryNew) : g[2] <= counted_guards[g[1]]})
LiveOpGuards ==
    CountedOpGuards
    + Cardinality({g \in OpThreads \X (1..MaxTryNew) : g[2] <= uncounted_guards[g[1]]})
OpQuiet == \A t \in OpThreads : opc[t] = "idle"

\* try_new: if RESOURCE_LIMITS.enabled.load() == 0 { return Some(OpGuard) }
TryNewEnabled(t) ==
    /\ opc[t] = "idle"
    /\ tryLeft > 0
    /\ tryLeft' = tryLeft - 1
    /\ IF enabled = 0
       THEN /\ uncounted_guards' = [uncounted_guards EXCEPT ![t] = @ + 1]
            /\ op_result' = [op_result EXCEPT ![t] = "Some"]
            /\ UNCHANGED opc
       ELSE /\ opc' = [opc EXCEPT ![t] = "fetch_add"]
            /\ op_result' = [op_result EXCEPT ![t] = "-"]
            /\ UNCHANGED uncounted_guards
    /\ UNCHANGED <<enabled, max_concurrent_ops, active_ops, op_active, op_max,
                   counted_guards, steady>>
    /\ UNCHANGED notLimits

\* let active = RESOURCE_LIMITS.active_ops.fetch_add(1)
TryNewFetchAdd(t) ==
    /\ opc[t] = "fetch_add"
    /\ op_active' = [op_active EXCEPT ![t] = active_ops]
    /\ active_ops' = active_ops + 1
    /\ opc' = [opc EXCEPT ![t] = "load_max"]
    /\ UNCHANGED <<enabled, max_concurrent_ops, op_max, counted_guards, uncounted_guards,
                   op_result, tryLeft, steady>>
    /\ UNCHANGED notLimits

\* let max = RESOURCE_LIMITS.max_concurrent_ops.load()
TryNewLoadMax(t) ==
    /\ opc[t] = "load_max"
    /\ op_max' = [op_max EXCEPT ![t] = max_concurrent_ops]
    /\ opc' = [opc EXCEPT ![t] = "check"]
    /\ UNCHANGED <<enabled, max_concurrent_ops, active_ops, op_active, counted_guards,
                   uncounted_guards, op_result, tryLeft, steady>>
    /\ UNCHANGED notLimits

\* if active >= max { active_ops.fetch_sub(1); None } else { Some(OpGuard) }
TryNewReturn(t) ==
    /\ opc[t] = "check"
    /\ IF ActiveAtMax(op_active[t], op_max[t])
       THEN /\ active_ops' = active_ops - 1
            /\ op_result' = [op_result EXCEPT ![t] = "None"]
            /\ UNCHANGED counted_guards
       ELSE /\ counted_guards' = [counted_guards EXCEPT ![t] = @ + 1]
            /\ op_result' = [op_result EXCEPT ![t] = "Some"]
            /\ UNCHANGED active_ops
    /\ opc' = [opc EXCEPT ![t] = "idle"]
    /\ op_active' = [op_active EXCEPT ![t] = 0]
    /\ op_max' = [op_max EXCEPT ![t] = 0]
    /\ UNCHANGED <<enabled, max_concurrent_ops, uncounted_guards, tryLeft, steady>>
    /\ UNCHANGED notLimits

\* drop: if RESOURCE_LIMITS.enabled.load() != 0, of a guard that was counted
\* or of one that was not: OpGuard is a unit struct and keeps no record.
DropEnabled(t, counted) ==
    /\ opc[t] = "idle"
    /\ IF counted
       THEN /\ counted_guards[t] > 0
            /\ counted_guards' = [counted_guards EXCEPT ![t] = @ - 1]
            /\ UNCHANGED uncounted_guards
       ELSE /\ uncounted_guards[t] > 0
            /\ uncounted_guards' = [uncounted_guards EXCEPT ![t] = @ - 1]
            /\ UNCHANGED counted_guards
    /\ opc' = [opc EXCEPT ![t] = IF enabled # 0 THEN "fetch_sub" ELSE "idle"]
    /\ UNCHANGED <<enabled, max_concurrent_ops, active_ops, op_active, op_max, op_result,
                   tryLeft, steady>>
    /\ UNCHANGED notLimits

\* drop: RESOURCE_LIMITS.active_ops.fetch_sub(1)
DropFetchSub(t) ==
    /\ opc[t] = "fetch_sub"
    /\ active_ops' = active_ops - 1
    /\ opc' = [opc EXCEPT ![t] = "idle"]
    /\ UNCHANGED <<enabled, max_concurrent_ops, op_active, op_max, counted_guards,
                   uncounted_guards, op_result, tryLeft, steady>>
    /\ UNCHANGED notLimits

\* A change of the limits leaves `steady` only when nothing is using them.
SteadyAfter(changed) == steady /\ (~changed \/ (OpQuiet /\ LiveOpGuards = 0))

\* RESOURCE_LIMITS.enabled.store(v): the field is public
StoreEnabled(v) ==
    /\ enabled # v
    /\ enabled' = v
    /\ steady' = SteadyAfter(TRUE)
    /\ UNCHANGED <<max_concurrent_ops, active_ops, opc, op_active, op_max, counted_guards,
                   uncounted_guards, op_result, tryLeft>>
    /\ UNCHANGED notLimits

\* RESOURCE_LIMITS.max_concurrent_ops.store(n)
StoreMaxConcurrentOps(n) ==
    /\ max_concurrent_ops # n
    /\ max_concurrent_ops' = n
    /\ steady' = SteadyAfter(TRUE)
    /\ UNCHANGED <<enabled, active_ops, opc, op_active, op_max, counted_guards,
                   uncounted_guards, op_result, tryLeft>>
    /\ UNCHANGED notLimits

\* reset_defaults(): max_concurrent_ops and enabled back to their defaults;
\* active_ops is not among the fields it stores.
reset_defaults ==
    /\ max_concurrent_ops # DEFAULT_MAX_CONCURRENT_OPS \/ enabled # 1
    /\ max_concurrent_ops' = DEFAULT_MAX_CONCURRENT_OPS
    /\ enabled' = 1
    /\ steady' = SteadyAfter(TRUE)
    /\ UNCHANGED <<active_ops, opc, op_active, op_max, counted_guards, uncounted_guards,
                   op_result, tryLeft>>
    /\ UNCHANGED notLimits

LimitNext ==
    \/ \E t \in OpThreads : TryNewEnabled(t)
    \/ \E t \in OpThreads : TryNewFetchAdd(t)
    \/ \E t \in OpThreads : TryNewLoadMax(t)
    \/ \E t \in OpThreads : TryNewReturn(t)
    \/ \E t \in OpThreads, counted \in BOOLEAN : DropEnabled(t, counted)
    \/ \E t \in OpThreads : DropFetchSub(t)
    \/ \E v \in {0, 1} : StoreEnabled(v)
    \/ \E n \in ConcurrentLimits : StoreMaxConcurrentOps(n)
    \/ reset_defaults

\* ==================================================== the matrix products
\* An f64 holding the integer hi * 2^53 + lo, lo small against 2^53.
F64(hi, lo) == [hi |-> hi, lo |-> lo]
Zero == F64(0, 0)
One == F64(0, 1)
Two == F64(0, 2)
\* 2^53 and -2^53: from here on the f64s are 2 apart
Big == F64(1, 0)
NegBig == F64(-1, 0)
Negated(x) == F64(-x.hi, -x.lo)

\* The largest power of two that is at most h, for h >= 1.
Pow2Floor(h) == CHOOSE p \in {1, 2, 4, 8, 16, 32, 64} : p <= h /\ h < 2 * p

\* The distance between the f64s around x = hi * 2^53 + lo, for hi >= 1:
\* 1 below 2^53, 2 from 2^53 to 2^54, 4 from 2^54 to 2^55, and so on.
Ulp(hi, lo) ==
    LET h == IF lo >= 0 THEN hi ELSE hi - 1
    IN IF h <= 0 THEN 1 ELSE 2 * Pow2Floor(h)

\* The result of an f64 operation whose exact value is x: the nearest f64,
\* and of two equally near the one with the even significand.
RoundPositive(x) ==
    LET s == Ulp(x.hi, x.lo)
        q == x.lo \div s
        r == x.lo % s
    IN F64(x.hi, IF 2 * r < s THEN q * s
                 ELSE IF 2 * r > s THEN (q + 1) * s
                 ELSE IF q % 2 = 0 THEN q * s ELSE (q + 1) * s)
RoundF64(x) ==
    IF x.hi = 0 THEN x
    ELSE IF x.hi > 0 THEN RoundPositive(x)
    ELSE Negated(RoundPositive(Negated(x)))

\* x + y, x * y and the fused x * y + acc (_mm256_fmadd_pd, vfmaq_f64), for
\* y a small integer as the entries of b are.
fadd(x, y) == RoundF64(F64(x.hi + y.hi, x.lo + y.lo))
fmul(x, y) == RoundF64(F64(x.hi * y.lo, x.lo * y.lo))
fma(x, y, acc) == RoundF64(F64(x.hi * y.lo + acc.hi, x.lo * y.lo + acc.lo))

\* `sum += a * b` for k = 0, 1, ..: matmul's out_row[j], simd_matmul off
\* x86_64 and optimal_matmul's fallback arm.
ScalarDot(row_a, col_b) ==
    LET S[n \in 0..Len(row_a)] ==
            IF n = 0 THEN Zero ELSE fadd(S[n - 1], fmul(row_a[n], col_b[n]))
    IN S[Len(row_a)]

\* `while k < cols_a { sum += row_a[k] * row_bt[k]; k += 1 }`: the elements
\* left after the vector steps.
NoTailSteps(cols, first) == 0
TailSteps(cols, first) == cols - first

\* The k loop of a kernel: `lanes` running sums over the vector steps, fused
\* or not, added from lane 0 upwards, then the remaining elements one by one.
LaneDot(row_a, col_b, lanes, fused) ==
    LET cols == Len(row_a)
        steps == Cardinality(VectorSteps(cols, lanes))
        Acc[n \in 0..steps] ==
            [l \in 0..(lanes - 1) |->
                IF n = 0 THEN Zero
                ELSE LET k == (n - 1) * lanes + l + 1
                     IN IF fused THEN fma(row_a[k], col_b[k], Acc[n - 1][l])
                        ELSE fadd(Acc[n - 1][l], fmul(row_a[k], col_b[k]))]
        H[l \in 0..(lanes - 1)] ==
            IF l = 0 THEN Acc[steps][0] ELSE fadd(H[l - 1], Acc[steps][l])
        first == steps * lanes
        T[n \in 0..TailSteps(cols, first)] ==
            IF n = 0 THEN H[lanes - 1]
            ELSE fadd(T[n - 1], fmul(row_a[first + n], col_b[first + n]))
    IN T[TailSteps(cols, first)]

\* A matrix by the lengths of its rows, column j of b (bt[j]), and the
\* rows_a x cols_b result of a path that computes its cells with Dot.
RowLensOf(m) == [i \in 1..Len(m) |-> Len(m[i])]
Column(b, j) == [k \in 1..Len(b) |-> b[k][j]]
Cells(a, b, Dot(_, _)) ==
    [i \in 1..Len(a) |-> [j \in 1..Len(b[1]) |-> Dot(a[i], Column(b, j))]]
Returned(out, cells) == [res |-> out.res, msg |-> out.msg, value |-> cells]
NotCalled == [res |-> "-", msg |-> "", value |-> <<>>]

\* tensor_ops::matmul(a, b)
matmul_values(a, b) ==
    LET out == matmul(RowLensOf(a), RowLensOf(b))
    IN IF out.res # "Ok" THEN Returned(out, <<>>)
       ELSE Returned(out, Cells(a, b, ScalarDot))

\* tensor_ops::simd_matmul(a, b): _mm_loadu_pd, _mm_mul_pd and _mm_add_pd
\* on two lanes under cfg(target_arch = "x86_64"), the zip of the rows
\* elsewhere.
simd_matmul_values(a, b, arch) ==
    LET out == matmul(RowLensOf(a), RowLensOf(b))
        Sse2(r, c) == LaneDot(r, c, 2, FALSE)
    IN IF out.res # "Ok" THEN Returned(out, <<>>)
       ELSE IF arch = "x86_64" THEN Returned(out, Cells(a, b, Sse2))
       ELSE Returned(out, Cells(a, b, ScalarDot))

\* simd_ops::optimal_matmul(a, b) where detect_simd_support() gives `level`,
\* on rectangular matrices.
optimal_matmul_values(a, b, level) ==
    LET out == CHOOSE o \in optimal_matmul(RowLensOf(a), RowLensOf(b), level) : TRUE
        Kernel(r, c) == LaneDot(r, c, Lanes(level), TRUE)
    IN IF out.res # "Ok" THEN Returned(out, <<>>)
       ELSE IF HasKernel(level) THEN Returned(out, Cells(a, b, Kernel))
       ELSE Returned(out, Cells(a, b, ScalarDot))

\* The target architectures of a build, and what detect_simd_support can
\* return on each.
Archs == {"x86_64", "aarch64", "other"}
LevelsOf(arch) ==
    IF arch = "x86_64" THEN {"avx512f", "avx2", "avx", "sse4.2", "basic"}
    ELSE IF arch = "aarch64" THEN {"neon", "basic"}
    ELSE {"basic"}
NoPlatform == [arch |-> "-", level |-> "-"]

\* The matrices the caller passes: rows of a drawn from these values, b of
\* small integers.
EntryValues == {One, Two, Big, NegBig}
ValueRows == UNION {[1..c -> EntryValues] : c \in 1..MaxInner}

ProductInit ==
    /\ val_a = <<>>
    /\ val_b = <<>>
    /\ val_pc = "new"
    /\ val_platform = NoPlatform
    /\ val_matmul = NotCalled
    /\ val_simd = NotCalled
    /\ val_optimal = NotCalled

\* The caller builds two non-empty rectangular matrices.
ValueArgs ==
    /\ val_pc = "new"
    /\ \E rows_a \in 1..MaxRows, row \in ValueRows,
          rows_b \in 1..MaxInner, cols_b \in 1..MaxCols :
          /\ val_a' = [i \in 1..rows_a |-> row]
          /\ val_b' = [k \in 1..rows_b |-> [j \in 1..cols_b |-> F64(0, j)]]
    /\ val_pc' = "args"
    /\ UNCHANGED <<val_platform, val_matmul, val_simd, val_optimal>>
    /\ UNCHANGED notProducts

CallMatmul ==
    /\ val_pc = "args"
    /\ val_matmul' = matmul_values(val_a, val_b)
    /\ val_pc' = "matmul"
    /\ UNCHANGED <<val_a, val_b, val_platform, val_simd, val_optimal>>
    /\ UNCHANGED notProducts

CallSimdMatmul(arch) ==
    /\ val_pc = "matmul"
    /\ val_platform' = [arch |-> arch, level |-> "-"]
    /\ val_simd' = simd_matmul_values(val_a, val_b, arch)
    /\ val_pc' = "simd_matmul"
    /\ UNCHANGED <<val_a, val_b, val_matmul, val_optimal>>
    /\ UNCHANGED notProducts

CallOptimalMatmul(level) ==
    /\ val_pc = "simd_matmul"
    /\ level \in LevelsOf(val_platform.arch)
    /\ val_platform' = [val_platform EXCEPT !.level = level]
    /\ val_optimal' = optimal_matmul_values(val_a, val_b, level)
    /\ val_pc' = "optimal_matmul"
    /\ UNCHANGED <<val_a, val_b, val_matmul, val_simd>>
    /\ UNCHANGED notProducts

ProductNext ==
    \/ ValueArgs
    \/ CallMatmul
    \/ \E arch \in Archs : CallSimdMatmul(arch)
    \/ \E level \in SimdLevels : CallOptimalMatmul(level)

\* A fresh pool, the METRICS static before its first use and a new server.
Init ==
    /\ PoolInit /\ MetricsInit /\ ServerInit /\ RouteInit /\ HandlerInit /\ LockInit
    /\ TpInit /\ TensorInit /\ LimitInit /\ ProductInit

\* The pool allocator, with the metrics never touched.
PoolSpec == Init /\ [][PoolNext]_vars

\* The METRICS static before its first use, beside a pool that is never used.
MetricsOnlyInit == Init /\ capacity = MaxCapacity

\* The metrics, with the pool never used.
MetricsSpec == MetricsOnlyInit /\ [][MetricsNext]_vars

\* The HTTP server's lifecycle and connections, with pool and metrics
\* untouched.
ServerSpec == MetricsOnlyInit /\ [][ServerNext]_vars

\* Requests dispatched over the route table, with everything else untouched.
RouteSpec == MetricsOnlyInit /\ [][RouteNext]_vars

\* call_handler applied to one returned object after another.
HandlerSpec == MetricsOnlyInit /\ [][HandlerNext]_vars

\* Requests and add_route calls contending for the route lock and the GIL.
LockSpec == MetricsOnlyInit /\ [][LockNext]_vars

\* Threads calling into the process-wide thread pool manager.
ThreadPoolSpec == MetricsOnlyInit /\ [][ThreadPoolNext]_vars

\* One caller of the tensor operations and of optimal_matmul / optimal_add.
TensorSpec == MetricsOnlyInit /\ [][TensorNext]_vars

\* The operation limits and the threads that hold OpGuards.
LimitSpec == MetricsOnlyInit /\ [][LimitNext]_vars

\* The three matrix products on the same matrices.
ProductSpec == MetricsOnlyInit /\ [][ProductNext]_vars

\* ================================================================ claims
\* No allocate or deallocate call is in progress.
Quiescent == \A t \in Threads : pc[t] = "idle"

\* Every block obtained from allocate has been passed to deallocate.
AllReturned == \A t \in Threads : HeldCount(t) = 0

\* C1: the used-bytes counter never exceeds the capacity fixed at construction,
\* under any interleaving of allocate and deallocate.
C1_UsedWithinCapacity == used <= capacity

\* C2: once every thread has passed every block it allocated to deallocate and
\* all have finished, stats().alloc_count equals stats().dealloc_count.
C2_CountsBalance ==
    (Quiescent /\ AllReturned) => stats.alloc_count = stats.dealloc_count

\* C3: once all calls have completed and every block obtained from allocate
\* has been passed to deallocate, available() equals the capacity.
C3_AllReturnedRestoresCapacity ==
    (Quiescent /\ AllReturned) => available = capacity

\* C3 witness: all blocks are back, one of them after a reuse and one dropped
\* by a deallocate that found the queue locked.
C3_Witness ==
    /\ Quiescent
    /\ AllReturned
    /\ stats.alloc_count >= 2
    /\ stats.dealloc_count < stats.alloc_count
    /\ available = capacity

\* C4: stats().peak_usage is the largest value the used-bytes counter has held
\* since the pool was created; a deallocate never lowers it.
C4_PeakIsLargestUsed ==
    /\ stats.peak_usage = maxUsed
    /\ peak_usage = maxUsed
    /\ used <= maxUsed

\* C4 witness: after a deallocation the counter is below a non-zero peak.
C4_Witness ==
    /\ Quiescent
    /\ stats.dealloc_count >= 1
    /\ stats.peak_usage > used
    /\ stats.peak_usage >= 2

\* C5: allocate(size) entered with used + size > capacity returns None at its
\* first step, without trying the queue lock, and leaves the counter, the
\* peak, the queue, the lock and every statistic unchanged.
C5_OverCapacityFailsFast ==
    [][\A t \in Threads :
          (/\ pc[t] = "a_check"
           /\ retries[t] = 0
           /\ used + size[t] > capacity
           /\ pc'[t] # pc[t])
          => /\ pc'[t] = "idle"
             /\ result'[t] = "None"
             /\ UNCHANGED <<capacity, used, peak_usage, blocks, blocksLock,
                            stats, held>>]_vars

\* C5 witness: an allocate has returned None with no contention recorded and
\* no lock taken, while the pool is full.
C5_Witness ==
    \E t \in Threads :
        /\ Quiescent
        /\ result[t] = "None"
        /\ stats.contention_count = 0
        /\ stats.alloc_count >= 1
        /\ used = capacity

\* C6: deallocate never waits for the reuse queue and always lowers the
\* counter by the block's length, saturating at zero; when the queue lock is
\* held by another thread the block is discarded and the queue unchanged,
\* otherwise the block is appended to the queue.
C6_DeallocNeverBlocks ==
    /\ [](\A t \in Threads : pc[t] = "d_trylock" => ENABLED DeallocTryLock(t))
    /\ [][\A t \in Threads :
          /\ (pc[t] = "d_sub" /\ pc'[t] # pc[t])
             => /\ used' = (IF used > block[t] THEN used - block[t] ELSE 0)
                /\ pc'[t] = "d_trylock"
          /\ (pc[t] = "d_trylock" /\ pc'[t] # pc[t] /\ blocksLock # NoThread)
             => /\ pc'[t] = "idle"
                /\ result'[t] = "Dropped"
                /\ UNCHANGED <<used, blocks, blocksLock, stats>>
          /\ (pc[t] = "d_trylock" /\ pc'[t] # pc[t] /\ blocksLock = NoThread)
             => /\ pc'[t] = "d_locked"
                /\ blocksLock' = t
                /\ UNCHANGED <<used, blocks>>
          /\ (pc[t] = "d_locked" /\ pc'[t] # pc[t])
             => /\ blocks' = Append(blocks, block[t])
                /\ UNCHANGED used]_vars

\* C6 witness: a deallocate found the queue locked and dropped a block whose
\* length the counter had already given back.
C6_Witness ==
    \E t \in Threads :
        /\ pc[t] = "idle"
        /\ result[t] = "Dropped"
        /\ blocksLock # NoThread
        /\ used = 0

\* C7: allocate makes at most 3 attempts to lock the reuse queue; when all of
\* them find the lock held it returns None even though used + size <= capacity,
\* leaves the counter unchanged and adds the 3 failed attempts to the
\* contention count.
C7_BoundedRetries ==
    /\ [](\A t \in Threads : retries[t] <= 3)
    /\ [][\A t \in Threads :
             /\ (pc[t] = "a_trylock" /\ pc'[t] # pc[t] /\ blocksLock # NoThread)
                => /\ retries'[t] = retries[t] + 1
                   /\ pc'[t] = "a_check"
                   /\ UNCHANGED <<used, peak_usage, blocks, blocksLock, stats>>
             /\ (pc[t] = "a_check" /\ retries[t] = 3 /\ pc'[t] # pc[t])
                => /\ pc'[t] = "idle"
                   /\ result'[t] = "None"
                   /\ stats' = [stats EXCEPT !.contention_count = @ + 3]
                   /\ UNCHANGED <<used, peak_usage, blocks, blocksLock>>]_vars

\* C7 witness: an allocate gave up after 3 failed attempts although the bytes
\* it asked for were free.
C7_Witness ==
    \E t \in Threads :
        /\ pc[t] = "idle"
        /\ result[t] = "None"
        /\ stats.contention_count = 3
        /\ stats.alloc_count = 0
        /\ used = 0

\* C8: whenever no allocate or deallocate call is in progress, stats().used
\* equals capacity - available().
C8_StatsUsedConsistent ==
    Quiescent => stats.used = capacity - available

\* No track_task, guard drop or reset call is in progress.
MetricsQuiescent == \A t \in Workers : mpc[t] = "idle"

\* C9: starting from reset counters, after N task guards have each been
\* created and dropped, in any order or interleaving, tasks_started =
\* tasks_completed = N and the active-worker count is 0.  N is `created`, the
\* guards created since the counters were last reset (or since start-up), and
\* no reset has stored over them.
C9_GuardsCounted ==
    (MetricsQuiescent /\ LiveGuards = 0 /\ ~overlapped)
    => /\ metrics.tasks_started = created
       /\ metrics.tasks_completed = created
       /\ metrics.active_workers = 0

\* C9 witness: after a reset, two guards that were live at the same time have
\* both been dropped.
C9_Witness ==
    /\ MetricsQuiescent
    /\ LiveGuards = 0
    /\ ~overlapped
    /\ observation_start = 1
    /\ created = 2
    /\ metrics.tasks_started = 2
    /\ metrics.max_active_workers = 2

\* C10: reset_metrics() and snapshot_and_reset() called while k > 0 task
\* guards are live return ActiveWorkers(k) and leave every counter and the
\* observation-window start unchanged; called when no guard is live they
\* succeed and set every counter to its initial value.  A guard is live from
\* the return of track_task to its drop; while a track_task or a drop is in
\* progress on another thread the reported count is at least the live guards.
C10_ResetRefusedWhileActive ==
    /\ [](\A t \in Workers :
            /\ (mpc[t] = "idle" /\ LiveGuards > 0)
                  => ENABLED ResetMetrics(t) /\ ENABLED SnapshotAndReset(t)
            /\ ~GuardActivity => metrics.active_workers = 0)
    /\ [][\A t \in Workers :
             \* no call passes the test while a guard is live
             /\ (LiveGuards > 0 /\ mpc[t] = "idle")
                => mpc'[t] \notin {"r_store", "sr_snapshot"}
             \* a refusal names the active workers and changes nothing
             /\ (mresult'[t] # mresult[t] /\ mresult'[t] \notin {NoResult, Ok})
                => /\ mresult'[t] = [tag |-> "ActiveWorkers", n |-> metrics.active_workers]
                   /\ metrics.active_workers > 0
                   /\ metrics.active_workers >= LiveGuards
                   /\ (\A u \in Workers : ~InGuardCall(u))
                         => metrics.active_workers = LiveGuards
                   /\ mpc'[t] = "idle"
                   /\ UNCHANGED <<metrics, observation_start>>
             \* with no guard live the call goes on to reset_unchecked
             /\ (~GuardActivity /\ mresult'[t] # mresult[t])
                => mresult'[t].tag # "ActiveWorkers"
             \* a call that was not refused returns Ok with the window
             \* restarted and, when no guard was created meanwhile, every
             \* counter at its initial value
             /\ (mpc[t] = "r_store" /\ mpc'[t] = "idle")
                => /\ mresult'[t].tag = "Ok"
                   /\ observation_start' > observation_start
                   /\ rclean[t] => metrics' = InitialMetrics]_vars

\* C10 witness: one worker's reset was refused with ActiveWorkers(1) while the
\* other held a guard; after the drop the other worker's reset succeeded and
\* the counters are back at their initial values.
C10_Witness ==
    /\ MetricsQuiescent
    /\ mresult["w2"] = [tag |-> "ActiveWorkers", n |-> 1]
    /\ mresult["w1"].tag = "Ok"
    /\ metrics = InitialMetrics
    /\ observation_start = 1

\* C11: under any interleaving of reset_metrics or snapshot_and_reset with
\* track_task calls and guard drops on other workers, no counter is zeroed
\* while a task guard is live: no store of reset_unchecked happens in a state
\* where some guard has been returned by track_task and not yet dropped.
C11_NoZeroingWhileGuardLive ==
    [][(\E t \in Workers : mpc[t] = "r_store" /\ ridx'[t] = ridx[t] + 1)
          => LiveGuards = 0]_vars

\* Guards dropped since the last completed reset.
TotalDropped ==
    Cardinality({g \in Durations \X (1..MaxCalls) : g[2] <= dropped[g[1]]})

\* Workers whose drop has not yet counted its task as completed.
DropsBeforeCompleted ==
    Cardinality({t \in Workers :
                    mpc[t] \in {"d_max", "d_max_cas", "d_min", "d_min_cas", "d_completed"}})

\* C12: the release logic of a task guard runs exactly once however the scope
\* holding it is left (normal return, early return, unwinding): a drop in
\* progress is one pass through Drop that raises tasks_completed by exactly 1
\* and then lowers active_workers by exactly 1, so active_workers is the
\* number of guards created and not yet released, and (with no reset in the
\* way) tasks_completed is the number of guards whose drop has passed its
\* fetch_add.
C12_ReleaseExactlyOnce ==
    /\ [](metrics.active_workers = HoldingActive)
    /\ []((~overlapped /\ \A t \in Workers : ~PastCheck(t))
            => metrics.tasks_completed = TotalDropped - DropsBeforeCompleted)
    /\ [](\A t \in Workers : (leaving[t] \in Exits) <=>
            mpc[t] \in {"d_max", "d_max_cas", "d_min", "d_min_cas", "d_completed", "d_active"})
    /\ [][\A t \in Workers :
            /\ (mpc[t] = "d_completed" /\ mpc'[t] # mpc[t]) =>
                  /\ mpc'[t] = "d_active"
                  /\ metrics'.tasks_completed = metrics.tasks_completed + 1
                  /\ metrics'.active_workers = metrics.active_workers
            /\ (mpc[t] = "d_active" /\ mpc'[t] # mpc[t]) =>
                  /\ mpc'[t] = "idle"
                  /\ metrics'.active_workers = metrics.active_workers - 1
                  /\ metrics'.tasks_completed = metrics.tasks_completed
                  /\ guards'[t] = guards[t]
            /\ (mpc'[t] = "d_completed" /\ mpc[t] # mpc'[t]) =>
                  mpc[t] \in {"d_min", "d_min_cas"}
            /\ (mpc'[t] = "d_max" /\ mpc[t] # mpc'[t]) =>
                  (mpc[t] = "idle" /\ guards'[t] = guards[t] - 1)]_vars

\* C12 witness: one guard is being released by unwinding and another by a
\* return; both have been counted as completed and neither has yet given up
\* its place in active_workers.
C12_Witness ==
    /\ leaving["w1"] = "unwind"
    /\ leaving["w2"] = "return"
    /\ mpc["w1"] = "d_active"
    /\ mpc["w2"] = "d_active"
    /\ metrics.tasks_completed = 2
    /\ metrics.active_workers = 2
    /\ LiveGuards = 0

\* The durations of the guards dropped since the last completed reset.
DroppedDurations == {d \in Durations : dropped[d] > 0}

\* d1 + .. + dn over the guards dropped since the last completed reset.
SumDropped ==
    Cardinality({g \in Durations \X (1..MaxCalls) \X (1..MaxNanos) :
                    g[2] <= dropped[g[1]] /\ g[3] <= g[1]})

\* No drop and no reset call is in progress (track_task calls may be).
NoDropOrResetInProgress ==
    \A t \in Workers : leaving[t] = NotLeaving /\ ~PastCheck(t)

LiveTasks == {c \in Conns : conn[c].st \in {"serving", "dropping"}}

\* C14: serve() on an instance that is already serving fails with "server
\* already running" and changes nothing: the shutdown sender, the thread
\* handle, the running accept loop with its listener, limiter and
\* connections all stay as they are, and no second thread is started.
C14_ServeWhileServingRefused ==
    [][(handle = "Some" /\ \E a \in Addrs : Serve(a)) =>
          /\ sresult' = "server already running"
          /\ UNCHANGED <<shutdown_tx, handle, connection_limit, spc, tpc, addr,
                         limit, rx, shutdown_requested, listening, permits,
                         active_connections, accepted, graceful, conn>>]_vars

\* C14 witness: a second serve() was refused while the accept loop is
\* listening and serving a connection.
C14_Witness ==
    /\ sresult = "server already running"
    /\ handle = "Some"
    /\ shutdown_tx = "Some"
    /\ tpc = "select"
    /\ listening
    /\ \E c \in Conns : conn[c].st = "serving"

\* C15: shutdown() on a serving instance fires the shutdown signal and
\* returns only when the thread has ended with every connection task finished
\* and joined; from the step in which the loop observes the signal on, no
\* connection is accepted.
C15_ShutdownDrainsAndJoins ==
    /\ [][(spc = "idle" /\ spc' = "joining" /\ rx = "open") => rx' = "sent"]_vars
    /\ [][(spc = "joining" /\ spc' = "idle") =>
             /\ tpc \in Exited
             /\ JoinSetEmpty
             /\ \A c \in Conns : conn[c].st \in {"none", "rejected"}
             /\ handle' = "None" /\ shutdown_tx' = "None"]_vars
    /\ [][shutdown_requested =>
             \A c \in Conns :
                 conn'[c].st \in {"accepted", "serving"} => conn'[c] = conn[c]]_vars
    /\ []((shutdown_requested /\ tpc = "select") =>
             /\ ENABLED LoopBreak
             /\ \A c \in Conns : ~ENABLED LoopAccept(c))

\* C15 witness: shutdown() is blocked in handle.join() after the loop has
\* received the signal and stopped listening, while the drain has still to join
\* a connection task that was being served and ended gracefully.
C15_Witness ==
    /\ spc = "joining"
    /\ handle = "None"
    /\ tpc = "drain"
    /\ rx = "received"
    /\ graceful
    /\ ~listening
    /\ \E c \in Conns : conn[c] = [st |-> "finished", how |-> "ok"]

\* The accept loop and its locals exist.
Serving == tpc \in {"select", "spawn", "graceful", "drain"}

\* Connections whose task holds a place in active_connections.
ActiveTasks == {c \in Conns : conn[c].st = "serving"}

\* Connections holding a permit of connection_limiter.
PermitHolders == {c \in Conns : conn[c].st \in {"accepted", "serving", "dropping"}}

\* C16: the number of simultaneously active connections never exceeds the
\* connection limit captured at serve(), whatever set_connection_limit does
\* afterwards; a connection accepted while no permit is available is dropped
\* in the same step, is not kept for later, and leaves the active-connection
\* count, the permits and the running tasks unchanged.
C16_ConnectionLimit ==
    /\ [](Serving =>
            /\ active_connections <= limit
            /\ Cardinality(ActiveTasks) <= limit
            /\ Cardinality(PermitHolders) <= limit)
    /\ [][Serving => limit' = limit]_vars
    /\ [][\A c \in Conns :
            (conn[c].st = "pending" /\ conn'[c].st # "pending" /\ permits = 0
                /\ tpc = "select" /\ tpc' # "graceful") =>
                /\ conn'[c].st = "rejected"
                /\ active_connections' = active_connections
                /\ permits' = permits
                /\ tpc' = "select"
                /\ accepted' = accepted
                /\ \A d \in Conns \ {c} : conn'[d] = conn[d]]_vars

\* C16 witness: with the limit captured at serve() fully used, a further
\* connection has been dropped; set_connection_limit has since changed the
\* configured value, which the running loop does not see.
C16_Witness ==
    /\ tpc = "select"
    /\ limit > 0
    /\ connection_limit # limit
    /\ active_connections = limit
    /\ permits = 0
    /\ \E c \in Conns : conn[c].st = "rejected"

\* C17: every accepted connection gives back its permit and lowers the
\* active-connection count exactly once when its task exits, however it
\* exits: the count is always the number of tasks that have not begun their
\* cleanup and the permits taken are those of the connections accepted and not
\* yet cleaned up; so with no connection task live the count is 0 and all
\* permits are available.
C17_CleanupExactlyOnce ==
    /\ [](Serving =>
            /\ active_connections = Cardinality(ActiveTasks)
            /\ permits = limit - Cardinality(PermitHolders)
            /\ ((LiveTasks = {} /\ tpc # "spawn") =>
                   (active_connections = 0 /\ permits = limit)))
    /\ [][\A c \in Conns :
            /\ (conn[c].st = "serving" /\ conn'[c] # conn[c]) =>
                  /\ conn'[c].st = "dropping"
                  /\ conn'[c].how \in TaskExits
                  /\ active_connections' = active_connections - 1
                  /\ permits' = permits
            /\ (conn[c].st = "dropping" /\ conn'[c] # conn[c]) =>
                  /\ conn'[c].st = "finished"
                  /\ permits' = permits + 1
                  /\ active_connections' = active_connections
            /\ (conn[c].st = "finished" /\ conn'[c] # conn[c]) =>
                  /\ conn'[c].st = "none"
                  /\ permits' = permits
                  /\ active_connections' = active_connections]_vars

\* C17 witness: two tasks have exited, one by a panic and one normally, and
\* no task is live: the count is back at 0 and every permit is available.
C17_Witness ==
    /\ tpc = "select"
    /\ limit > 0
    /\ LiveTasks = {}
    /\ \E c \in Conns : conn[c] = [st |-> "finished", how |-> "panic"]
    /\ \E c \in Conns : conn[c] = [st |-> "finished", how |-> "ok"]
    /\ active_connections = 0
    /\ permits = limit

\* A request has been handled and its outcome is recorded.
Handled == request # NoRequest

\* The routes of the request's method, in registration order, with what
\* match_route makes of each for the request's path.
RoutesTried == routes[request.method]
Outcome(i) == match_route(RoutesTried[i].pattern, path_segments(request.path))
NotMissing == {i \in 1..Len(RoutesTried) : Outcome(i).tag # "Miss"}
Matching == {i \in 1..Len(RoutesTried) : Outcome(i).tag = "Ok"}

\* C18: a GET request for /health, /ready or /live is answered with status
\* 200 and body {"status":"ok"} whatever routes are registered.
C18_HealthAlwaysOk ==
    (Handled /\ request.method = "GET" /\ request.path \in FallbackPaths) =>
        response = StatusOk

\* The int captures of a pattern whose path segment is not an integer.
FailingCaptures(pattern, path) ==
    {k \in 1..Len(pattern) :
        pattern[k].kind = "Param" /\ pattern[k].ty = "Int" /\ ~ParseI64Ok(path[k])}

\* C19: if the first route of the request's method, in registration order,
\* that does not miss has an int capture whose segment is not an integer, the
\* response is 422 with one {loc, msg, type} entry per failing capture and no
\* handler is invoked, also when a later route matches the path.
C19_ValidationErrorFirst ==
    (Handled /\ NotMissing # {}) =>
        LET i == CHOOSE k \in NotMissing : \A j \in NotMissing : k <= j
            pattern == RoutesTried[i].pattern
            failing == FailingCaptures(pattern, path_segments(request.path))
        IN  failing # {} =>
              /\ response.status = 422
              /\ Len(response.detail) = Cardinality(failing)
              /\ \A n \in 1..Len(response.detail) :
                    /\ response.detail[n].msg = "value is not a valid integer"
                    /\ response.detail[n].typ = "type_error.integer"
                    /\ \E k \in failing :
                          response.detail[n].loc = <<"path", pattern[k].name>>
              /\ \A k \in failing : \E n \in 1..Len(response.detail) :
                    response.detail[n].loc = <<"path", pattern[k].name>>
              /\ invoked = <<>>

\* C19 witness: /x/x was requested with /{a:int}/{b:int} registered before
\* /x/{name:str}: both captures of the first route are reported and the
\* second route, which matches, is not called.
C19_Witness ==
    /\ Handled
    /\ request.path = <<Word, Word>>
    /\ Len(RoutesTried) = 2
    /\ Outcome(1).tag = "ValidationError"
    /\ Outcome(2).tag = "Ok"
    /\ response.status = 422
    /\ Len(response.detail) = 2
    /\ response.detail[1].loc = <<"path", "a">>
    /\ response.detail[2].loc = <<"path", "b">>
    /\ invoked = <<>>

\* C20: route matching is first-match-wins in registration order: at most
\* one handler is invoked per request; a handler that is invoked is the
\* handler of the earliest-registered route of the request's method whose
\* pattern matches the path; and when the first route that does not miss
\* matches and the body is read, that route's handler is invoked.
C20_FirstMatchWins ==
    Handled =>
        /\ Len(invoked) <= 1
        /\ invoked # <<>> =>
              /\ Matching # {}
              /\ \E i \in Matching :
                    /\ \A j \in Matching : i <= j
                    /\ invoked[1] = RoutesTried[i].handler
                    /\ response \in {call_handler(RoutesTried[i].handler, o) :
                                        o \in HandlerOutcomes}
        /\ (NotMissing # {} /\ \E i \in Matching : \A j \in NotMissing : i <= j) =>
              (invoked # <<>> \/ response = BodyError)

\* C20 witness: /7 was requested with /{name} registered before /{id:int}
\* for the method; both match and the handler of the first was called.
C20_Witness ==
    /\ Handled
    /\ request.path = <<Seven>>
    /\ Matching = {1, 2}
    /\ RoutesTried[1].pattern = <<Param("name", "Str")>>
    /\ RoutesTried[2].pattern = <<Param("id", "Int")>>
    /\ invoked = <<RoutesTried[1].handler>>
    /\ response.by = RoutesTried[1].handler

\* The positions of a pattern that satisfy a condition, in increasing order.
PositionsWhere(pattern, Cond(_)) ==
    SelectSeq([i \in 1..Len(pattern) |-> i], Cond)

\* What C21 states for a pattern and a path of segments: Miss exactly when the
\* lengths differ or a literal differs; else one error per int capture that is
\* not an integer, in pattern order; else every captured segment, in order.
ExpectedMatch(pattern, path) ==
    IF \/ Len(pattern) # Len(path)
       \/ \E i \in 1..Len(pattern) :
             pattern[i].kind = "Static" /\ pattern[i].s # path[i]
    THEN Miss
    ELSE LET bad == PositionsWhere(pattern,
                      LAMBDA i : /\ pattern[i].kind = "Param"
                                 /\ pattern[i].ty = "Int"
                                 /\ ~ParseI64Ok(path[i]))
             caps == PositionsWhere(pattern, LAMBDA i : pattern[i].kind = "Param")
         IN  IF bad # <<>>
             THEN ValidationError([k \in 1..Len(bad) |->
                                     PathValidationError(pattern[bad[k]].name)])
             ELSE MatchOk([k \in 1..Len(caps) |-> path[caps[k]]])

\* C21: for every registered pattern and every request path, match_route
\* returns Miss iff the segment counts differ or a literal segment differs;
\* otherwise ValidationError with one entry at ["path", name] per int capture
\* whose segment is not an integer, in pattern order; otherwise Ok with the
\* captured segments in path order, one per capture.
C21_MatchRouteExact ==
    \A method \in Methods : \A i \in 1..Len(routes[method]) : \A path \in Paths :
        match_route(routes[method][i].pattern, path_segments(path))
            = ExpectedMatch(routes[method][i].pattern, path_segments(path))

\* /x/x has been matched against /{a:int}/{b:int}: two errors, a before b.
C21_Witness ==
    /\ request.path = <<Word, Word>>
    /\ response.status = 422
    /\ response.detail = <<PathValidationError("a"), PathValidationError("b")>>

\* The returned object is one the claim counts as a response: a tuple of
\* three with a valid HTTP status, a body of text, list of text or bytes, and
\* headers.
Convertible(obj) ==
    /\ obj.tuple
    /\ Len(obj.items) = 3
    /\ obj.items[1].ty = "int" /\ obj.items[1].n \in 100..999
    /\ obj.items[2].ty \in {"str", "list[str]", "bytes"}
    /\ obj.items[3].ty = "dict"

\* C23: whenever the value a handler returned cannot be turned into a response
\* (not a 3-tuple, a body that is not text, a list of text or bytes, a status
\* code that is not a valid HTTP status), the client receives a 500 response
\* with a JSON body.
C23_InvalidReturnGives500 ==
    (returned # NoReturn /\ ~Convertible(returned))
        => built = json_response(500, "Internal Server Error", <<>>)

\* C22: a panic or a raised error inside a handler invocation yields a 500
\* response for that request only: the step leaves the task serving its
\* connection, the other connections and their requests, the accept loop, the
\* listener, the limiter and the connection count as they were; afterwards the
\* loop still accepts a waiting connection and a handler still running on
\* another connection can return its response.
C22_HandlerFailureIsolated ==
    /\ [][\A c \in Conns : \A o \in {"error", "panic"} :
             TaskHandlerReturns(c, o) =>
                 /\ req'[c].ph = "idle" /\ req'[c].status = 500
                 /\ \A d \in Conns \ {c} : req'[d] = req[d]
                 /\ UNCHANGED <<conn, tpc, listening, permits, active_connections,
                                accepted, shutdown_requested, graceful, rx>>]_vars
    /\ []((\E c \in Conns : req[c].out \in {"error", "panic"}) =>
             /\ \A d \in Conns :
                   (tpc = "select" /\ ~shutdown_requested /\ conn[d].st = "pending")
                       => ENABLED LoopAccept(d)
             /\ \A d \in Conns :
                   req[d].ph = "handler" => ENABLED TaskHandlerReturns(d, "tuple"))

\* C22 witness: a handler panicked, its request was answered with 500 and its
\* connection is still served, while the handler of another connection is
\* running and the loop is listening.
C22_Witness ==
    /\ tpc = "select"
    /\ listening
    /\ \E c, d \in Conns :
          /\ c # d
          /\ conn[c].st = "serving"
          /\ req[c] = [ph |-> "idle", late |-> FALSE, status |-> 500, out |-> "panic"]
          /\ conn[d].st = "serving"
          /\ req[d].ph = "handler"

\* C24: whenever the processing of a request, a handler invocation that runs
\* longer than the request timeout included, exceeds the request timeout, the
\* client receives a 408 no later than the timeout and the connection does
\* not stay blocked on the handler: no request is in flight with the timeout
\* behind it, and no other response than 408 is written after the timeout.
C24_TimeoutGives408 ==
    \A c \in Conns :
        /\ req[c].late => req[c].ph = "idle"
        /\ (req[c].ph = "idle" /\ req[c].late) => req[c].status = 408

\* A handler invocation is in flight on task q.
InHandler(q) == lpc[q] \in {"handler", "handler_blocked"}

\* Thread t waits for the route lock, which another thread holds.
WaitsForLock(t) ==
    /\ \/ t = Host /\ lpc[t] = "add_lock"
       \/ t \in Tasks /\ lpc[t] = "idle"
    /\ routes_lock # Free

\* Thread t holds the route lock and waits for the GIL, which another thread
\* holds.
HoldsLockWaitingForGil(t) ==
    /\ routes_lock = t
    /\ lpc[t] = "clone_gil"
    /\ gil # Free

\* C25: the route-table lock is held only while the routes of the request's
\* method are looked up and cloned, never while a handler runs, so add_route
\* and other requests are never blocked by an in-flight handler: the holder of
\* the lock is not itself in a handler, it never waits under the lock for
\* something a running handler holds, and it never waits under the lock for
\* a thread that waits for the lock.
C25_LockOnlyForLookup ==
    \A t \in Tasks :
        /\ routes_lock = t => ~InHandler(t)
        /\ HoldsLockWaitingForGil(t) => (gil \notin Tasks \/ ~InHandler(gil))
        /\ HoldsLockWaitingForGil(t) => ~(gil = Host /\ lpc[Host] = "add_lock")

\* C26: specialized pools are keyed by name with get-or-create semantics:
\* after any interleaving of get_or_create_specialized_pool,
\* run_in_compute_pool, run_in_io_pool and initialize_optimal_thread_pools
\* calls the registry holds at most one pool per name and every get-or-create
\* for a name has returned the same pool.
C26_OnePoolPerName ==
    /\ \A i, j \in 1..Len(specialized_pools) :
          specialized_pools[i].name = specialized_pools[j].name => i = j
    /\ \A kind \in LookupNames : Cardinality(handed[kind]) <= 1

\* C28: the default pool of the process-wide manager has physical core count
\* + 1 threads, and at least 1, whatever the physical and logical core counts,
\* also after initialize_optimal_thread_pools has run.
C28_DefaultPoolSize ==
    manager => default_pool.threads = AtLeast(physical_cores + 1, 1)

\* C27: update_config / configure_global_thread_pool replaces only the stored
\* configuration: a step that changes it leaves the default pool and the
\* registry as they are; the default pool and every registered pool keep
\* their identity and thread count for good; and a pool created afterwards is
\* built from the configuration last stored, with the thread count asked for.
C27_UpdateConfigOnlyConfig ==
    /\ [][config' # config =>
             /\ config' = configured'
             /\ manager => default_pool' = default_pool
             /\ specialized_pools' = specialized_pools]_vars
    /\ [][/\ manager => default_pool' = default_pool
          /\ \A i \in 1..Len(specialized_pools) :
                /\ i <= Len(specialized_pools')
                /\ specialized_pools'[i] = specialized_pools[i]]_vars
    /\ [][\A k \in Callers :
             (kpc[k] = "create" /\ Len(specialized_pools') > Len(specialized_pools)
                 /\ klocal'[k] # klocal[k]) =>
                 LET new == specialized_pools'[Len(specialized_pools')].pool
                 IN  /\ new.threads = klocal[k].n
                     /\ new.lifetime = configured.thread_lifetime_ms
                     /\ new.breadth_first = configured.breadth_first
                     /\ new.id \notin {specialized_pools[i].pool.id :
                                          i \in 1..Len(specialized_pools)}
                     /\ new.id # default_pool.id]_vars

\* C27 witness: a specialized pool built from the default configuration and
\* one built after configure_global_thread_pool stand side by side, the default
\* pool being the one built at start-up.
C27_Witness ==
    /\ config \in CustomConfigs
    /\ default_pool = create_pool(DefaultConfig(total_cores), 0)
    /\ \E i, j \in 1..Len(specialized_pools) :
          /\ specialized_pools[i].pool.lifetime = 10000
          /\ ~specialized_pools[i].pool.breadth_first
          /\ specialized_pools[j].pool.lifetime = 0
          /\ specialized_pools[j].pool.breadth_first

\* A matrix that is empty, has an empty row or has rows of different lengths.
NotAMatrix(m) ==
    \/ m = <<>>
    \/ \E i \in 1..Len(m) : m[i] = 0
    \/ \E i, j \in 1..Len(m) : m[i] # m[j]

\* The arguments of a call are invalid for the operation: a matrix that is
\* not one, or shapes or a size the operation cannot take.
InvalidInput(op, a, b, sz) ==
    IF NotAMatrix(a) \/ (op \in BinaryOps /\ NotAMatrix(b)) THEN TRUE
    ELSE CASE op \in {"matmul", "simd_matmul"} -> a[1] # Len(b)
           [] op \in {"elementwise_add", "hadamard"} -> Len(a) # Len(b) \/ a[1] # b[1]
           [] op = "conv2d" -> Len(a) < Len(b) \/ a[1] < b[1]
           [] op = "max_pool2d" -> sz = 0 \/ Len(a) % sz # 0 \/ a[1] % sz # 0
           [] OTHER -> FALSE

\* C29: a call of multiply, add, matmul, simd_matmul, elementwise_add,
\* hadamard, conv2d or max_pool2d with invalid input returns a Validation
\* error and created no task guard: tasks_started, tasks_completed and the
\* active-worker count are what they were before the call.
C29_InvalidInputNoParallelWork ==
    [][(/\ tensor_pc = "idle" /\ tensor_pc' = "returned"
        /\ tensor_op' \in TensorOps
        /\ InvalidInput(tensor_op', tensor_a, tensor_b, tensor_size')) =>
           /\ tensor_out'.res = "Validation"
           /\ tensor_out'.tasks = 0
           /\ metrics'.tasks_started = metrics.tasks_started
           /\ metrics'.tasks_completed = metrics.tasks_completed
           /\ metrics'.active_workers = metrics.active_workers
           /\ guards' = guards]_vars

\* C29 witness: after an operation that ran its tasks, matmul has been called
\* with a valid first matrix and a second one that is not a matrix, and has
\* returned a Validation error.
C29_Witness ==
    /\ tensor_pc = "returned"
    /\ tensor_op = "matmul"
    /\ ~NotAMatrix(tensor_a)
    /\ NotAMatrix(tensor_b)
    /\ tensor_out.res = "Validation"
    /\ metrics.tasks_started > 0

\* C30: every tensor entry point, optimal_matmul and optimal_add with their
\* kernels included, returns a Validation error when a matrix it is given is
\* empty, has an empty row or is ragged, and no call indexes or loads outside
\* a row.
C30_EveryEntryPointValidates ==
    [][(tensor_pc = "idle" /\ tensor_pc' = "returned") =>
           /\ ~tensor_out'.outside
           /\ (\/ NotAMatrix(tensor_a)
               \/ (tensor_op' \in BinaryOps \cup OptimalOps /\ NotAMatrix(tensor_b))) =>
                  tensor_out'.res = "Validation"]_vars

\* The total length of the blocks the callers hold.
TotalHeldBytes ==
    LET Sum[n \in -1..MaxSize] ==
            IF n < 0 THEN 0
            ELSE n * Cardinality({c \in Threads \X (1..MaxOps) : c[2] <= held[c[1]][n]})
                 + Sum[n - 1]
    IN Sum[MaxSize]

\* C34: the total length of the blocks currently held by callers never
\* exceeds the pool's capacity, also when allocate hands out a queued block
\* that is longer than the size asked for. Stated for the behaviours in which
\* the used counter itself never passed the capacity, so that two allocate
\* calls racing past the capacity test are not what breaks it.
C34_HeldWithinCapacity == maxUsed <= capacity => TotalHeldBytes <= capacity

\* C35: in every reachable state tasks_completed <= tasks_started, and, when
\* no track_task, drop or reset call is in progress, the active-worker count
\* is tasks_started - tasks_completed.
C35_CompletedWithinStarted ==
    /\ metrics.tasks_completed <= metrics.tasks_started
    /\ MetricsQuiescent =>
          metrics.active_workers = metrics.tasks_started - metrics.tasks_completed

\* A worker is inside RayonTaskGuard::new.
InTrackTask(t) ==
    mpc[t] \in {"n_threads_cas", "n_active", "n_maxact", "n_maxact_cas", "n_started"}

C37_StoredHandleIsListening ==
    (handle = "Some" /\ spc = "idle") =>
        \/ tpc \in {"runtime", "bind"}
        \/ listening

\* C38: shutdown() clears both the shutdown sender and the thread handle; on
\* an instance that is not serving it changes nothing; and a serve() call
\* that follows a shutdown() is not refused with "server already running":
\* given an address that parses it returns Ok, stores a new sender and handle
\* and starts a new thread.
C38_ShutdownClearsBoth ==
    /\ []((spc = "joining" \/ sresult = "shutdown") =>
             (shutdown_tx = "None" /\ handle = "None"))
    /\ [][(/\ spc = "idle" /\ handle = "None" /\ shutdown_tx = "None"
           /\ sresult' = "shutdown" /\ sresult # "shutdown") =>
              UNCHANGED <<shutdown_tx, handle, connection_limit, spc, tpc, addr, limit,
                          rx, shutdown_requested, listening, permits,
                          active_connections, accepted, graceful, conn, req>>]_vars
    /\ [][(sresult = "shutdown" /\ sresult' # "shutdown") =>
              /\ sresult' \in {"Ok", "invalid address"}
              /\ sresult' = "Ok" =>
                    /\ shutdown_tx' = "Some" /\ handle' = "Some"
                    /\ tpc' = "runtime" /\ rx' = "open"]_vars
    /\ [](sresult = "shutdown" => ENABLED Serve("free"))

\* C38 witness: serve() has returned Ok on an instance whose earlier accept
\* loop was shut down and drained, and the new thread is starting.
C38_Witness ==
    /\ sresult = "Ok"
    /\ handle = "Some"
    /\ shutdown_tx = "Some"
    /\ tpc = "runtime"
    /\ rx = "open"
    /\ graceful

\* C31: compute called with cancel = Some(true) returns the Cancelled error
\* without looking the operation up or running it, for every operation name,
\* params and data: no task guard is created and the metrics are untouched.
C31_CancelSkipsOperation ==
    [][(/\ tensor_pc = "idle" /\ tensor_pc' = "computed"
        /\ compute_call'.cancel = "Some(true)") =>
           /\ tensor_out'.res = "Cancelled"
           /\ tensor_out'.tasks = 0
           /\ compute_call'.lookup = "none"
           /\ UNCHANGED mvars]_vars

\* C31 witness: compute has returned Cancelled for a registered operation on
\* matrices it would have multiplied, after a call that did run its tasks.
C31_Witness ==
    /\ tensor_pc = "computed"
    /\ compute_call.cancel = "Some(true)"
    /\ tensor_op = "matmul"
    /\ matmul(tensor_a, tensor_b).res = "Ok"
    /\ tensor_out.res = "Cancelled"
    /\ metrics.tasks_started > 0

\* Threads whose increment or decrement of active_ops is still to be settled:
\* past try_new's fetch_add and before its return, or in drop before its
\* fetch_sub.
OpsInFlight ==
    Cardinality({t \in OpThreads : opc[t] \in {"load_max", "check", "fetch_sub"}})

\* C33: while the limits are enabled and are not changed under the guards,
\* at most max_concurrent_ops OpGuards are live in every interleaving of
\* try_new and drop; a try_new whose fetch_add runs while max_concurrent_ops
\* guards are live reads a count at the limit and returns None, handing out
\* no guard and taking its increment back; no step of try_new waits.
C33_AtMostMaxGuards ==
    /\ []((steady /\ enabled = 1) =>
             /\ LiveOpGuards <= max_concurrent_ops
             /\ active_ops = CountedOpGuards + OpsInFlight)
    /\ [][\A t \in OpThreads :
             (/\ steady /\ enabled = 1
              /\ opc[t] = "fetch_add" /\ opc'[t] = "load_max"
              /\ LiveOpGuards = max_concurrent_ops) =>
                 ActiveAtMax(op_active'[t], max_concurrent_ops)]_vars
    /\ [][\A t \in OpThreads :
             (/\ steady
              /\ opc[t] = "check" /\ opc'[t] = "idle"
              /\ op_active[t] >= max_concurrent_ops) =>
                 /\ op_result'[t] = "None"
                 /\ counted_guards' = counted_guards
                 /\ uncounted_guards' = uncounted_guards
                 /\ active_ops' = active_ops - 1]_vars
    /\ [](\A t \in OpThreads :
             /\ opc[t] = "fetch_add" => ENABLED TryNewFetchAdd(t)
             /\ opc[t] = "load_max" => ENABLED TryNewLoadMax(t)
             /\ opc[t] = "check" => ENABLED TryNewReturn(t))

\* C33 witness: with a limit stored while nothing used it, as many guards as
\* the limit are live, and a try_new has returned None and left active_ops
\* at the number of guards.
C33_Witness ==
    /\ steady
    /\ enabled = 1
    /\ OpQuiet
    /\ max_concurrent_ops = MaxConcurrent
    /\ LiveOpGuards = max_concurrent_ops
    /\ active_ops = max_concurrent_ops
    /\ \E t \in OpThreads : op_result[t] = "None"

\* C39: whenever no try_new or drop is in progress, active_ops is the number
\* of live guards that were counted when acquired, whatever changes the
\* enabled flag went through; active_ops never goes below zero, and is zero
\* once every guard is dropped.
C39_ActiveOpsCountsGuards ==
    /\ active_ops >= 0
    /\ OpQuiet => active_ops = CountedOpGuards
    /\ (OpQuiet /\ LiveOpGuards = 0) => active_ops = 0

SmallIntegers(m) == \A i \in 1..Len(m) : \A k \in 1..Len(m[i]) : m[i][k].hi = 0

\* The three paths returned Ok with a rows(a) x cols(b) matrix each.
ProductShapes ==
    \A out \in {val_matmul, val_simd, val_optimal} :
        /\ out.res = "Ok"
        /\ Len(out.value) = Len(val_a)
        /\ \A i \in 1..Len(out.value) : Len(out.value[i]) = Len(val_b[1])
ProductsRejected ==
    \A out \in {val_matmul, val_simd, val_optimal} : out.res = "Validation"
ProductsEqual == val_matmul.value = val_simd.value /\ val_simd.value = val_optimal.value

====
